---- MODULE Spec2Model ----
(***************************************************************************)
(* Model of the SSH server manager: the session handle (SSHConnection),    *)
(* the main window's connect / disconnect handlers with their worker       *)
(* threads, the remote file browser's attach / upload / download handlers  *)
(* with their worker threads, and the credential store.                    *)
(*                                                                         *)
(* Handlers that run on the Tk event thread are atomic actions.  Worker    *)
(* threads are split at the points where they touch shared state.  Results *)
(* come back to the event thread through the after() queue (afterQ).       *)
(***************************************************************************)
EXTENDS Integers, Sequences, FiniteSets, TLC

\* ---------------------------------------------------------------- bounds
MaxConns == 2      \* connect worker threads (each creates one SSHClient)
MaxXfers == 2      \* upload / download worker threads
MaxDepth == 1      \* remote path components below the initial directory

None == "None"      \* Python None where the other values are strings
NoClient == 0       \* Python None where the other values are client ids

Names == {"web1", "web2"}

\* Python's string order on the server names.
NameLeq(a, b) == a = b \/ (a = "web1" /\ b = "web2")

ConnIds == 1..MaxConns
XferIds == 1..MaxXfers

\* ------------------------------------------------------------ GUI state
VARIABLES
    client,                 \* SSHConnection.client: None or a client id
    sess,                   \* per created SSHClient: "unused","new","open","closed"
    connected_server_name,  \* ServerManagerGUI.connected_server_name
    controls_enabled,       \* server_tree selectable (set_controls_enabled)
    upload_button,          \* Upload button state == 'normal'
    download_button,        \* Download button state == 'normal'
    main_status,            \* main window status_var
    fb,                     \* RemoteFileBrowserFrame fields
    conns,                  \* connect worker threads
    xfers,                  \* transfer worker threads
    afterQ,                 \* callbacks posted with after(0, ...), FIFO
    svc,                    \* services panel: rows, timers, worker threads
    remote,                 \* st_mode of the selected remote entry, last chmod
    dialogs,                \* message boxes shown by the last handler
    servers,                \* CredentialManager.servers
    file,                   \* content of servers.json
    wrote,                  \* the last credential operation called save_data
    credOp,                 \* the last credential operation and its name
    ioBudget                \* I/O failures the environment may still inject

guiVars == <<client, sess, connected_server_name, controls_enabled,
             upload_button, download_button, main_status, fb, conns, xfers,
             afterQ, svc, remote>>
credVars == <<servers, file, wrote, credOp, ioBudget>>
vars == <<client, sess, connected_server_name, controls_enabled,
          upload_button, download_button, main_status, fb, conns, xfers,
          afterQ, svc, remote, dialogs, servers, file, wrote, credOp,
          ioBudget>>

\* ------------------------------------------------- SSHConnection (pure)
\* SSHConnection.is_connected: client set, transport present and active.
is_connected_of(c, ss) == c # NoClient /\ ss[c] = "open"

is_connected == is_connected_of(client, sess)

\* Mutant of SSHdisconnect: closes the client and forgets to clear it.
SSHdisconnect_keeps_client(c, ss) ==
    IF c # NoClient
    THEN [client |-> c, sess |-> [ss EXCEPT ![c] = "closed"]]
    ELSE [client |-> c, sess |-> ss]

\* SSHConnection.disconnect on handle state (c, ss): close and clear.
SSHdisconnect(c, ss) ==
    IF c # NoClient
    THEN [client |-> NoClient, sess |-> [ss EXCEPT ![c] = "closed"]]
    ELSE [client |-> c, sess |-> ss]

\* ------------------------------------------- RemoteFileBrowserFrame (pure)
RootPath == <<>>
NotConnectedPath == <<"Not connected">>
NoPath == <<"None">>                        \* Python None where a path is expected

DirRow == [name |-> "d", type |-> "Directory"]
FileRow == [name |-> "f", type |-> "File"]
NoRow == [name |-> "", type |-> "None"]     \* no row selected

\* Code point of the one-character entry names used here.
Ord(n) ==
    CASE n = "B" -> 66 [] n = "a" -> 97 [] n = "b" -> 98
      [] n = "d" -> 100 [] n = "f" -> 102

\* Mutant of LowerKey: the sort key is the name as it is (case-sensitive).
LowerKey_case_sensitive(n) == Ord(n)

\* The sort key x[0].lower(): upper-case letters map to their lower case.
LowerKey(n) ==
    LET c == Ord(n) IN IF c >= 65 /\ c <= 90 THEN c + 32 ELSE c

IsDirEntry(e) == e.type = "Directory"
IsFileEntry(e) == e.type # "Directory"

\* list.sort(key=...): stable, each entry goes behind the entries whose key
\* is not larger.
RECURSIVE SortByKey(_)
SortByKey(entries) ==
    IF entries = <<>>
    THEN <<>>
    ELSE LET e == entries[Len(entries)]
             before == SortByKey(SubSeq(entries, 1, Len(entries) - 1))
             k == Cardinality({i \in 1..Len(before) :
                                  LowerKey(before[i].name) <= LowerKey(e.name)})
         IN  SubSeq(before, 1, k) \o <<e>>
                \o SubSeq(before, k + 1, Len(before))

\* The rows list_directory inserts for the entries the server returned.
dirs_then_files(items) ==
    SortByKey(SelectSeq(items, IsDirEntry))
        \o SortByKey(SelectSeq(items, IsFileEntry))

\* The numeric uid and gid the remote entries carry, and the name shown
\* for an id the cache does not hold (the number itself).
OwnerId == 1000
NumericName == 0
EmptyCache == [i \in {} |-> NumericName]

\* What a remote listdir_attr can return: an error or the entries in the
\* server's order, and whether the id lookup (_resolve_ids) gets an answer.
ListingOutcomes ==
    {[ok |-> FALSE, items |-> <<>>, resolve |-> FALSE],
     [ok |-> TRUE, items |-> <<>>, resolve |-> FALSE],
     [ok |-> TRUE, items |-> <<FileRow, DirRow>>, resolve |-> FALSE],
     [ok |-> TRUE, items |-> <<FileRow, DirRow>>, resolve |-> TRUE]}

\* open_sftp / normalize outcomes inside attach_client.
SftpOutcomes == {"ok", "open_fail", "normalize_fail"}

NoListing == [ok |-> TRUE, items |-> <<>>, resolve |-> FALSE]

\* What the remote side can answer during one attach_client: the SFTP
\* outcome and, when the session opens, the outcome of the first listing.
AttachOutcomes ==
    {[sftp |-> "ok", lst |-> l] : l \in ListingOutcomes}
        \cup {[sftp |-> o, lst |-> NoListing] :
                 o \in {"open_fail", "normalize_fail"}}

\* RemoteFileBrowserFrame.set_enabled
set_enabled(f, en) ==
    IF en
    THEN [f EXCEPT !.enabled = TRUE]
    ELSE [f EXCEPT !.enabled = FALSE, !.editor_enabled = FALSE]

\* _resolve_ids for the ids of a listing that the cache does not hold yet:
\* the lookup runs over ssh_client, and the name it returns is entered
\* (a name is modelled by the connection that gave it).
resolve_ids(cache, ssh_client, lst) ==
    IF /\ lst.items # <<>>
       /\ OwnerId \notin DOMAIN cache
       /\ lst.resolve
       /\ ssh_client # NoClient
    THEN [i \in {OwnerId} |-> ssh_client]
    ELSE cache

\* The owner / group column: cache.get(id, str(id)).
name_of(cache) ==
    IF OwnerId \in DOMAIN cache THEN cache[OwnerId] ELSE NumericName

\* Mutant of list_directory: a listing also closes the file in the editor.
list_directory_discards(f, path, lst) ==
    IF f.sftp_client = NoClient
    THEN [fb |-> f, dlg |-> {}]
    ELSE LET g == [f EXCEPT !.open_file_path = NoPath,
                            !.editor_dirty = FALSE,
                            !.editor_text = "",
                            !.editor_enabled = FALSE]
         IN  IF ~lst.ok
             THEN [fb |-> [g EXCEPT !.current_path = path, !.tree = <<>>,
                                    !.names_shown = {}, !.status = "Error",
                                !.listdir_calls = 1],
                   dlg |-> {"Error"}]
             ELSE LET uc == resolve_ids(g.uid_cache, g.ssh_client, lst)
                      gc == resolve_ids(g.gid_cache, g.ssh_client, lst)
                  IN  [fb |-> [g EXCEPT !.current_path = path,
                                        !.tree = dirs_then_files(lst.items),
                                        !.uid_cache = uc, !.gid_cache = gc,
                                        !.names_shown =
                                            IF lst.items = <<>>
                                            THEN {}
                                            ELSE {name_of(uc), name_of(gc)},
                                        !.status = "Listing",
                                    !.listdir_calls = 1],
                       dlg |-> {}]

\* Mutant of list_directory: a failed listing is attempted a second time.
list_directory_retries(f, path, lst) ==
    IF f.sftp_client = NoClient
    THEN [fb |-> f, dlg |-> {}]
    ELSE IF ~lst.ok
         THEN [fb |-> [f EXCEPT !.current_path = path, !.tree = <<>>,
                                !.names_shown = {}, !.status = "Error",
                                !.listdir_calls = 2],
               dlg |-> {"Error"}]
         ELSE LET uc == resolve_ids(f.uid_cache, f.ssh_client, lst)
                  gc == resolve_ids(f.gid_cache, f.ssh_client, lst)
              IN  [fb |-> [f EXCEPT !.current_path = path,
                                    !.tree = dirs_then_files(lst.items),
                                    !.uid_cache = uc, !.gid_cache = gc,
                                    !.names_shown =
                                        IF lst.items = <<>>
                                        THEN {}
                                        ELSE {name_of(uc), name_of(gc)},
                                    !.status = "Listing",
                                    !.listdir_calls = 1],
                   dlg |-> {}]

\* RemoteFileBrowserFrame.list_directory; returns the frame and the dialogs;
\* listdir_calls is the number of listdir_attr calls this request made.
list_directory(f, path, lst) ==
    IF f.sftp_client = NoClient
    THEN [fb |-> f, dlg |-> {}]
    ELSE IF ~lst.ok
         THEN [fb |-> [f EXCEPT !.current_path = path, !.tree = <<>>,
                                !.names_shown = {}, !.status = "Error",
                                !.listdir_calls = 1],
               dlg |-> {"Error"}]
         ELSE LET uc == resolve_ids(f.uid_cache, f.ssh_client, lst)
                  gc == resolve_ids(f.gid_cache, f.ssh_client, lst)
              IN  [fb |-> [f EXCEPT !.current_path = path,
                                    !.tree = dirs_then_files(lst.items),
                                    !.uid_cache = uc, !.gid_cache = gc,
                                    !.names_shown =
                                        IF lst.items = <<>>
                                        THEN {}
                                        ELSE {name_of(uc), name_of(gc)},
                                    !.status = "Listing",
                                    !.listdir_calls = 1],
                   dlg |-> {}]

\* Mutant of attach_client: the owner / group caches are not reset.
attach_client_keeps_caches(f, c, ss, out, lst) ==
    LET f1 == [f EXCEPT !.sftp_client = NoClient, !.ssh_client = c]
        opened == [f1 EXCEPT !.sftp_client = c]
    IN  IF c = NoClient
        THEN [fb |-> [set_enabled(f1, FALSE) EXCEPT
                         !.current_path = NotConnectedPath,
                         !.status = "Not connected",
                         !.tree = <<>>,
                         !.names_shown = {},
                         !.transfer_in_progress = FALSE],
              dlg |-> {}]
        ELSE IF out = "ok" /\ ss[c] = "open"
             THEN list_directory(set_enabled(opened, TRUE), RootPath, lst)
             ELSE IF out = "normalize_fail" /\ ss[c] = "open"
                  THEN [fb |-> [set_enabled(opened, FALSE)
                                   EXCEPT !.status = "SFTP error"],
                        dlg |-> {"SFTP Error"}]
                  ELSE [fb |-> [set_enabled(f1, FALSE)
                                   EXCEPT !.status = "SFTP error"],
                        dlg |-> {"SFTP Error"}]

\* RemoteFileBrowserFrame.attach_client(c): ss is the sessions' state,
\* out the outcome of open_sftp / normalize, lst the listing's outcome.
attach_client(f, c, ss, out, lst) ==
    LET f1 == [f EXCEPT !.sftp_client = NoClient, !.ssh_client = c]
        opened == [f1 EXCEPT !.sftp_client = c,
                                  !.uid_cache = EmptyCache,
                                  !.gid_cache = EmptyCache]
    IN  IF c = NoClient
        THEN [fb |-> [set_enabled(f1, FALSE) EXCEPT
                         !.current_path = NotConnectedPath,
                         !.status = "Not connected",
                         !.tree = <<>>,
                         !.names_shown = {},
                         !.transfer_in_progress = FALSE],
              dlg |-> {}]
        ELSE IF out = "ok" /\ ss[c] = "open"
             THEN list_directory(set_enabled(opened, TRUE), RootPath, lst)
             ELSE IF out = "normalize_fail" /\ ss[c] = "open"
                  THEN [fb |-> [set_enabled(opened, FALSE)
                                   EXCEPT !.status = "SFTP error"],
                        dlg |-> {"SFTP Error"}]
                  ELSE [fb |-> [set_enabled(f1, FALSE)
                                   EXCEPT !.status = "SFTP error"],
                        dlg |-> {"SFTP Error"}]

\* Names and entries of the richer remote directories.
MaxEntries == 3    \* entries one listing returns

EntryNames == {"B", "a", "b"}

Entries == {[name |-> n, type |-> t] :
               n \in EntryNames, t \in {"Directory", "File"}}

\* listdir_attr answers over Entries: an error, or up to MaxEntries entries
\* with different names in any order.
DirListings ==
    {[ok |-> FALSE, items |-> <<>>, resolve |-> FALSE]}
        \cup {[ok |-> TRUE, items |-> q, resolve |-> TRUE] :
                 q \in {r \in UNION {[1..k -> Entries] : k \in 0..MaxEntries} :
                           \A i, j \in 1..Len(r) :
                              i < j => r[i].name # r[j].name}}

\* open_remote_file's preview limit.
MAX_PREVIEW_BYTES == 2000000

\* What the server answers when a file is opened: stat (failure, directory,
\* size), then the read (failure, a NUL byte in the content, the text).
FileAnswers ==
    {[stat_ok |-> FALSE, is_dir |-> FALSE, size |-> 0, read_ok |-> FALSE,
      nul |-> FALSE, text |-> ""],
     [stat_ok |-> TRUE, is_dir |-> TRUE, size |-> 4096, read_ok |-> FALSE,
      nul |-> FALSE, text |-> ""],
     [stat_ok |-> TRUE, is_dir |-> FALSE, size |-> 10, read_ok |-> FALSE,
      nul |-> FALSE, text |-> ""]}
        \cup {[stat_ok |-> TRUE, is_dir |-> FALSE, size |-> z, read_ok |-> TRUE,
                nul |-> n, text |-> IF n THEN "" ELSE "remote text"] :
                 z \in {MAX_PREVIEW_BYTES, MAX_PREVIEW_BYTES + 1},
                 n \in BOOLEAN}

\* Mutant of open_remote_file: the NUL-byte test is missing.
open_remote_file_loads_binary(f, remote_path, ans) ==
    IF f.sftp_client = NoClient
    THEN [fb |-> f, dlg |-> {}]
    ELSE IF ~ans.stat_ok
    THEN [fb |-> f, dlg |-> {"Open Failed"}]
    ELSE IF ans.is_dir
    THEN [fb |-> f, dlg |-> {}]
    ELSE IF ans.size > MAX_PREVIEW_BYTES
    THEN [fb |-> f, dlg |-> {"Large File"}]
    ELSE IF ~ans.read_ok
    THEN [fb |-> f, dlg |-> {"Open Failed"}]
    ELSE [fb |-> [f EXCEPT !.editor_text = ans.text,
                           !.editor_dirty = FALSE,
                           !.open_file_path = remote_path,
                           !.editor_enabled = TRUE,
                           !.status = "Opened"],
          dlg |-> {}]

\* RemoteFileBrowserFrame.open_remote_file; returns the frame and the dialogs.
open_remote_file(f, remote_path, ans) ==
    IF f.sftp_client = NoClient
    THEN [fb |-> f, dlg |-> {}]
    ELSE IF ~ans.stat_ok
    THEN [fb |-> f, dlg |-> {"Open Failed"}]
    ELSE IF ans.is_dir
    THEN [fb |-> f, dlg |-> {}]
    ELSE IF ans.size > MAX_PREVIEW_BYTES
    THEN [fb |-> f, dlg |-> {"Large File"}]
    ELSE IF ~ans.read_ok
    THEN [fb |-> f, dlg |-> {"Open Failed"}]
    ELSE IF ans.nul
    THEN [fb |-> f, dlg |-> {"Binary File"}]
    ELSE [fb |-> [f EXCEPT !.editor_text = ans.text,
                           !.editor_dirty = FALSE,
                           !.open_file_path = remote_path,
                           !.editor_enabled = TRUE,
                           !.status = "Opened"],
          dlg |-> {}]

\* posixpath.dirname of a normalized path; the root is its own parent.
Parent(path) ==
    IF path = <<>> THEN <<>> ELSE SubSeq(path, 1, Len(path) - 1)

\* RemoteFileBrowserFrame._get_active_or_selected_dir; sel is the selected
\* row or NoRow.
get_active_or_selected_dir(f, sel) ==
    IF ~f.enabled \/ f.sftp_client = NoClient
    THEN NoPath
    ELSE IF sel.type = "Directory"
         THEN Append(f.current_path, sel.name)
         ELSE f.current_path

\* No mode handed to chmod yet.
NoMode == -1

\* A regular file with mode rw-r--r--, no chmod issued.
InitRemote == [mode |-> 33188, chmod_arg |-> NoMode, calls |-> 0]

InitFb ==
    [ssh_client |-> NoClient, sftp_client |-> NoClient, enabled |-> FALSE,
     editor_enabled |-> FALSE, transfer_in_progress |-> FALSE,
     status |-> "Not connected", current_path |-> NotConnectedPath,
     tree |-> <<>>, open_file_path |-> NoPath, editor_dirty |-> FALSE,
     editor_text |-> "", uid_cache |-> EmptyCache, gid_cache |-> EmptyCache,
     names_shown |-> {}, listdir_calls |-> 0]

\* ------------------------------------------------------ credential store
MaxSvcs == 2       \* entries in a list handed to set_services
MaxIOFail == 1     \* injected I/O failures of the persisted file

\* CredentialManager.get_server: the record, or NoServer for Python None.
NoServer == [absent |-> TRUE]

EmptyStore == [n \in {} |-> NoServer]

\* Connection parameters a dialog can hand to add_server.
Params ==
    {[host |-> "h1", username |-> "u1", password |-> "p1", port |-> 22],
     [host |-> "h2", username |-> "u2", password |-> "p2", port |-> 2222]}

\* Service names as typed: strings are sequences of characters.
SvcStrings == {<<" ">>, <<"a">>, <<" ", "a", " ">>, <<"b">>}

SvcLists == UNION {[1..k -> SvcStrings] : k \in 0..MaxSvcs}

\* str.strip(): drop leading and trailing whitespace.
RECURSIVE LStrip(_)
LStrip(str) ==
    IF str # <<>> /\ Head(str) = " " THEN LStrip(Tail(str)) ELSE str

RECURSIVE RStrip(_)
RStrip(str) ==
    IF str # <<>> /\ str[Len(str)] = " "
    THEN RStrip(SubSeq(str, 1, Len(str) - 1))
    ELSE str

\* Mutant of Strip: only the leading whitespace is dropped.
Strip_left_only(str) == LStrip(str)

Strip(str) == RStrip(LStrip(str))

InSeq(x, sq) == \E i \in 1..Len(sq) : sq[i] = x

\* The loop of set_services: trim, drop empties, drop repeats.
RECURSIVE Normalize(_, _)
Normalize(services, norm) ==
    IF services = <<>>
    THEN norm
    ELSE LET e == Strip(Head(services))
         IN  Normalize(Tail(services),
                       IF e # <<>> /\ ~InSeq(e, norm)
                       THEN Append(norm, e) ELSE norm)

\* The loop of get_services over a stored list: unique, order kept.
RECURSIVE Unique(_, _)
Unique(svcs, out) ==
    IF svcs = <<>>
    THEN out
    ELSE Unique(Tail(svcs),
                IF ~InSeq(Head(svcs), out) THEN Append(out, Head(svcs))
                                           ELSE out)

get_server(name) == IF name \in DOMAIN servers THEN servers[name] ELSE NoServer

\* CredentialManager.get_services
get_services(name) ==
    LET data == IF name \in DOMAIN servers THEN servers[name] ELSE EmptyStore
    IN  IF "services" \in DOMAIN data THEN Unique(data.services, <<>>)
                                      ELSE <<>>

\* CredentialManager.list_servers: the names in ascending order.
RECURSIVE SortedSeq(_)
SortedSeq(S) ==
    IF S = {}
    THEN <<>>
    ELSE LET m == CHOOSE x \in S : \A y \in S : NameLeq(x, y)
         IN  <<m>> \o SortedSeq(S \ {m})

\* Mutant of list_servers: the names in descending order.
list_servers_descending ==
    LET up == SortedSeq(DOMAIN servers)
    IN  [i \in 1..Len(up) |-> up[Len(up) + 1 - i]]

list_servers == SortedSeq(DOMAIN servers)

\* The persisted file: absent, unparsable, or a JSON document.
FileOf(data) == [missing |-> FALSE, corrupt |-> FALSE, data |-> data]
MissingFile == [missing |-> TRUE, corrupt |-> FALSE, data |-> EmptyStore]
CorruptFile == [missing |-> FALSE, corrupt |-> TRUE, data |-> EmptyStore]

\* How one save_data call can end.
SaveOutcomes ==
    {"ok"} \cup (IF ioBudget > 0 THEN {"open_fail", "write_fail"} ELSE {})

\* Mutant of save_data: the file gets the map as it was before the mutation.
save_data_stale(newServers, outcome) ==
    /\ wrote' = TRUE
    /\ IF outcome = "ok"
       THEN /\ file' = FileOf(servers)
            /\ dialogs' = {}
            /\ ioBudget' = ioBudget
       ELSE /\ file' = IF outcome = "open_fail" THEN file ELSE CorruptFile
            /\ dialogs' = {"Failed to save server data"}
            /\ ioBudget' = ioBudget - 1

\* CredentialManager.save_data of the map newServers.
save_data(newServers, outcome) ==
    /\ wrote' = TRUE
    /\ IF outcome = "ok"
       THEN /\ file' = FileOf(newServers)
            /\ dialogs' = {}
            /\ ioBudget' = ioBudget
       ELSE /\ file' = IF outcome = "open_fail" THEN file ELSE CorruptFile
            /\ dialogs' = {"Failed to save server data"}
            /\ ioBudget' = ioBudget - 1

\* Mutant of add_server: username and password stored in each other's place.
add_server_swapped(name, p) ==
    /\ servers' = [n \in DOMAIN servers \cup {name} |->
                      IF n = name
                      THEN [host |-> p.host, username |-> p.password,
                            password |-> p.username, port |-> p.port]
                      ELSE servers[n]]
    /\ \E outcome \in SaveOutcomes : save_data(servers', outcome)
    /\ credOp' = [op |-> "add_server", name |-> name]
    /\ UNCHANGED guiVars

\* CredentialManager.add_server
add_server(name, p) ==
    /\ servers' = [n \in DOMAIN servers \cup {name} |->
                      IF n = name
                      THEN [host |-> p.host, username |-> p.username,
                            password |-> p.password, port |-> p.port]
                      ELSE servers[n]]
    /\ \E outcome \in SaveOutcomes : save_data(servers', outcome)
    /\ credOp' = [op |-> "add_server", name |-> name]
    /\ UNCHANGED guiVars

\* Mutant of delete_server: pops the name and saves whether or not it was there.
delete_server_always_saves(name) ==
    /\ servers' = [n \in DOMAIN servers \ {name} |-> servers[n]]
    /\ \E outcome \in SaveOutcomes : save_data(servers', outcome)
    /\ credOp' = [op |-> "delete_server", name |-> name]
    /\ UNCHANGED guiVars

\* CredentialManager.delete_server
delete_server(name) ==
    /\ IF name \in DOMAIN servers
       THEN /\ servers' = [n \in DOMAIN servers \ {name} |-> servers[n]]
            /\ \E outcome \in SaveOutcomes : save_data(servers', outcome)
       ELSE /\ wrote' = FALSE
            /\ dialogs' = {}
            /\ UNCHANGED <<servers, file, ioBudget>>
    /\ credOp' = [op |-> "delete_server", name |-> name]
    /\ UNCHANGED guiVars

\* Mutant of set_services: an unknown name gets a record (setdefault).
set_services_creates(name, services) ==
    /\ servers' =
          [n \in DOMAIN servers \cup {name} |->
              IF n = name
              THEN [k \in (IF n \in DOMAIN servers THEN DOMAIN servers[n]
                                                   ELSE {}) \cup {"services"} |->
                       IF k = "services" THEN Normalize(services, <<>>)
                                         ELSE servers[n][k]]
              ELSE servers[n]]
    /\ \E outcome \in SaveOutcomes : save_data(servers', outcome)
    /\ credOp' = [op |-> "set_services", name |-> name]
    /\ UNCHANGED guiVars

\* CredentialManager.set_services
set_services(name, services) ==
    /\ IF name \notin DOMAIN servers
       THEN /\ wrote' = FALSE
            /\ dialogs' = {}
            /\ UNCHANGED <<servers, file, ioBudget>>
       ELSE /\ servers' =
                [servers EXCEPT ![name] =
                    [k \in DOMAIN servers[name] \cup {"services"} |->
                        IF k = "services" THEN Normalize(services, <<>>)
                                          ELSE servers[name][k]]]
            /\ \E outcome \in SaveOutcomes : save_data(servers', outcome)
    /\ credOp' = [op |-> "set_services", name |-> name]
    /\ UNCHANGED guiVars

\* Mutant of load_data: a failed load resets the store without the alert.
load_data_silent ==
    /\ \E readable \in (IF ioBudget > 0 THEN BOOLEAN ELSE {TRUE}) :
          IF file.missing \/ ~readable \/ file.corrupt
          THEN /\ servers' = EmptyStore
               /\ dialogs' = {}
               /\ ioBudget' = IF readable THEN ioBudget ELSE ioBudget - 1
          ELSE /\ servers' = file.data
               /\ dialogs' = {}
               /\ ioBudget' = ioBudget
    /\ wrote' = FALSE
    /\ credOp' = [op |-> "load_data", name |-> None]
    /\ UNCHANGED <<file, guiVars>>

\* CredentialManager.__init__ / load_data: the application starts again.
load_data ==
    /\ \E readable \in (IF ioBudget > 0 THEN BOOLEAN ELSE {TRUE}) :
          IF file.missing
          THEN /\ servers' = EmptyStore
               /\ dialogs' = {}
               /\ ioBudget' = ioBudget
          ELSE IF ~readable \/ file.corrupt
          THEN /\ servers' = EmptyStore
               /\ dialogs' = {"Failed to load server data"}
               /\ ioBudget' = IF readable THEN ioBudget ELSE ioBudget - 1
          ELSE /\ servers' = file.data
               /\ dialogs' = {}
               /\ ioBudget' = ioBudget
    /\ wrote' = FALSE
    /\ credOp' = [op |-> "load_data", name |-> None]
    /\ UNCHANGED <<file, guiVars>>

\* --------------------------------------------------------- server dialogs
\* The text of an entry field is a sequence of characters; Chars gives the
\* characters of the strings that appear in the store.
Chars ==
    ("web1" :> <<"w", "e", "b", "1">>) @@ ("web2" :> <<"w", "e", "b", "2">>)
        @@ ("h1" :> <<"h", "1">>) @@ ("h2" :> <<"h", "2">>)
        @@ ("u1" :> <<"u", "1">>) @@ ("u2" :> <<"u", "2">>)
        @@ ("p1" :> <<"p", "1">>) @@ ("p2" :> <<"p", "2">>)
        @@ (" " :> <<" ">>)

\* The string with the given characters.
Str(chars) == CHOOSE s \in DOMAIN Chars : Chars[s] = chars

DigitVal ==
    ("0" :> 0) @@ ("1" :> 1) @@ ("2" :> 2) @@ ("3" :> 3) @@ ("4" :> 4)
        @@ ("5" :> 5) @@ ("6" :> 6) @@ ("7" :> 7) @@ ("8" :> 8) @@ ("9" :> 9)

IsDigit(c) == c \in DOMAIN DigitVal

\* Value of a run of digits with single underscores between them.
RECURSIVE DigitsValue(_, _)
DigitsValue(str, acc) ==
    IF str = <<>>
    THEN acc
    ELSE IF Head(str) = "_"
         THEN DigitsValue(Tail(str), acc)
         ELSE DigitsValue(Tail(str), 10 * acc + DigitVal[Head(str)])

\* Mutant of ParseInt: the sign is read and then forgotten.
ParseInt_unsigned(str) ==
    LET t == Strip(str)
        signed == t # <<>> /\ Head(t) \in {"+", "-"}
        body == IF signed THEN Tail(t) ELSE t
        wellformed ==
            /\ body # <<>>
            /\ IsDigit(body[1])
            /\ IsDigit(body[Len(body)])
            /\ \A i \in 1..Len(body) : IsDigit(body[i]) \/ body[i] = "_"
            /\ \A i \in 1..(Len(body) - 1) :
                  ~(body[i] = "_" /\ body[i + 1] = "_")
    IN  IF wellformed
        THEN [ok |-> TRUE, val |-> DigitsValue(body, 0)]
        ELSE [ok |-> FALSE, val |-> 0]

\* int(port_str): blanks around, an optional sign, decimal digits with single
\* underscores allowed between them; anything else raises ValueError.
ParseInt(str) ==
    LET t == Strip(str)
        signed == t # <<>> /\ Head(t) \in {"+", "-"}
        body == IF signed THEN Tail(t) ELSE t
        wellformed ==
            /\ body # <<>>
            /\ IsDigit(body[1])
            /\ IsDigit(body[Len(body)])
            /\ \A i \in 1..Len(body) : IsDigit(body[i]) \/ body[i] = "_"
            /\ \A i \in 1..(Len(body) - 1) :
                  ~(body[i] = "_" /\ body[i + 1] = "_")
    IN  IF wellformed
        THEN [ok |-> TRUE,
              val |-> IF signed /\ Head(t) = "-"
                      THEN 0 - DigitsValue(body, 0)
                      ELSE DigitsValue(body, 0)]
        ELSE [ok |-> FALSE, val |-> 0]

\* ServerDialog.result while it is None.
NoResult == [absent |-> TRUE]

\* ServerDialog.save_server on the typed fields: the result tuple, or
\* NoResult and the error shown.
save_server(typed) ==
    LET name == Strip(typed.name)
        host == Strip(typed.host)
        username == Strip(typed.username)
        password == typed.password
        port_str == Strip(typed.port)
        port == ParseInt(port_str)
    IN  IF \E x \in {name, host, username, password, port_str} : x = <<>>
        THEN [result |-> NoResult, dlg |-> {"All fields are required."}]
        ELSE IF ~port.ok \/ ~(1 <= port.val /\ port.val <= 65535)
        THEN [result |-> NoResult,
              dlg |-> {"Port must be a number between 1 and 65535."}]
        ELSE [result |-> [name |-> name, host |-> host,
                          username |-> username, password |-> password,
                          port |-> port.val],
              dlg |-> {}]

Pad(chars) == <<" ">> \o chars \o <<" ">>

\* What the user can have typed when Save is pressed: two complete forms,
\* and the first form with one field changed.
TypedForm1 ==
    [name |-> Pad(Chars["web1"]), host |-> Chars["h1"],
     username |-> Chars["u1"], password |-> Chars["p1"],
     port |-> <<"2", "2">>]

TypedForm2 ==
    [name |-> Chars["web2"], host |-> Pad(Chars["h2"]),
     username |-> Pad(Chars["u2"]), password |-> Chars["p2"],
     port |-> <<" ", "2", "2", "2", "2">>]

PortTexts ==
    {<<>>, <<" ">>, <<"a">>, <<"2", "a">>, <<"0">>, <<"1">>, <<"-", "1">>,
     <<"+", "2", "2">>, <<"2", "_", "2">>, <<"2", " ", "2">>,
     <<"6", "5", "5", "3", "5">>, <<"6", "5", "5", "3", "6">>}

TypedInputs ==
    {TypedForm1, TypedForm2}
        \cup {[TypedForm1 EXCEPT ![f] = v] :
                 f \in {"name", "host", "username", "password"},
                 v \in {<<>>, <<" ">>}}
        \cup {[TypedForm1 EXCEPT !.port = v] : v \in PortTexts}

\* What the user can have typed in the Edit dialog: the two forms under
\* either name, and a form that is refused.
EditInputs ==
    {[t EXCEPT !.name = Chars[n]] : t \in {TypedForm1, TypedForm2},
                                    n \in Names}
        \cup {[TypedForm1 EXCEPT !.port = <<"0">>]}

\* self.servers[name] = {host, username, password, port}
put_server(store, name, r) ==
    [n \in DOMAIN store \cup {name} |->
        IF n = name
        THEN [host |-> Str(r.host), username |-> Str(r.username),
              password |-> Str(r.password), port |-> r.port]
        ELSE store[n]]

\* del self.servers[name]
pop_server(store, name) == [n \in DOMAIN store \ {name} |-> store[n]]

\* The file after one save_data call with the given outcome.
saved_file(f, data, outcome) ==
    IF outcome = "ok" THEN FileOf(data)
    ELSE IF outcome = "open_fail" THEN f ELSE CorruptFile

\* ServerManagerGUI.add_server_dialog: the user fills the form and presses
\* Save; after a refused Save the dialog is cancelled.
add_server_dialog(typed) ==
    LET r == save_server(typed)
    IN  IF r.result = NoResult
        THEN /\ dialogs' = r.dlg
             /\ wrote' = FALSE
             /\ credOp' = [op |-> "add_server_dialog", name |-> None]
             /\ UNCHANGED <<servers, file, ioBudget, guiVars>>
        ELSE /\ servers' = put_server(servers, Str(r.result.name), r.result)
             /\ \E outcome \in SaveOutcomes : save_data(servers', outcome)
             /\ credOp' = [op |-> "add_server_dialog",
                           name |-> Str(r.result.name)]
             /\ main_status' = "Added server"
             /\ UNCHANGED <<client, sess, connected_server_name,
                            controls_enabled, upload_button, download_button,
                            fb, conns, xfers, afterQ, svc, remote>>

\* Mutant of edit_server_dialog: the new record takes over the services of
\* the record that was edited.
edit_server_dialog_keeps_services(server_name, typed) ==
    IF server_name = None
    THEN /\ dialogs' = {"Please select a server to edit"}
         /\ wrote' = FALSE
         /\ credOp' = [op |-> "edit_server_dialog", name |-> None]
         /\ UNCHANGED <<servers, file, ioBudget, guiVars>>
    ELSE LET r == save_server(typed)
         IN  IF r.result = NoResult
             THEN /\ dialogs' = r.dlg
                  /\ wrote' = FALSE
                  /\ credOp' = [op |-> "edit_server_dialog", name |-> None]
                  /\ UNCHANGED <<servers, file, ioBudget, guiVars>>
             ELSE LET new_name == Str(r.result.name)
                      p1 == put_server(servers, new_name, r.result)
                      s1 == IF "services" \in DOMAIN servers[server_name]
                            THEN [p1 EXCEPT ![new_name] =
                                     [k \in DOMAIN p1[new_name]
                                               \cup {"services"} |->
                                         IF k = "services"
                                         THEN servers[server_name].services
                                         ELSE p1[new_name][k]]]
                            ELSE p1
                      s2 == IF new_name # server_name
                            THEN pop_server(s1, server_name)
                            ELSE s1
                  IN  /\ servers' = s2
                      /\ \E o1 \in SaveOutcomes :
                            save_data(servers', o1)
                      /\ credOp' = [op |-> "edit_server_dialog",
                                    name |-> new_name]
                      /\ main_status' = "Updated server"
                      /\ UNCHANGED <<client, sess, connected_server_name,
                                     controls_enabled, upload_button,
                                     download_button, fb, conns, xfers,
                                     afterQ, svc, remote>>

\* ServerManagerGUI.edit_server_dialog on the selected server (None when no
\* row is selected): add_server under the new name, then delete_server of
\* the old name when the name was changed; each of them saves.
edit_server_dialog(server_name, typed) ==
    IF server_name = None
    THEN /\ dialogs' = {"Please select a server to edit"}
         /\ wrote' = FALSE
         /\ credOp' = [op |-> "edit_server_dialog", name |-> None]
         /\ UNCHANGED <<servers, file, ioBudget, guiVars>>
    ELSE LET r == save_server(typed)
         IN  IF r.result = NoResult
             THEN /\ dialogs' = r.dlg
                  /\ wrote' = FALSE
                  /\ credOp' = [op |-> "edit_server_dialog", name |-> None]
                  /\ UNCHANGED <<servers, file, ioBudget, guiVars>>
             ELSE LET new_name == Str(r.result.name)
                      s1 == put_server(servers, new_name, r.result)
                      renamed == new_name # server_name
                      s2 == IF renamed THEN pop_server(s1, server_name)
                                       ELSE s1
                  IN  /\ servers' = s2
                      /\ \E o1 \in SaveOutcomes :
                            LET f1 == saved_file(file, s1, o1)
                                b1 == IF o1 = "ok" THEN ioBudget
                                                   ELSE ioBudget - 1
                            IN  IF ~renamed
                                THEN /\ file' = f1
                                     /\ ioBudget' = b1
                                     /\ dialogs' =
                                           IF o1 = "ok" THEN {}
                                           ELSE {"Failed to save server data"}
                                ELSE \E o2 \in {"ok"} \cup
                                         (IF b1 > 0
                                          THEN {"open_fail", "write_fail"}
                                          ELSE {}) :
                                        /\ file' = saved_file(f1, s2, o2)
                                        /\ ioBudget' = IF o2 = "ok" THEN b1
                                                       ELSE b1 - 1
                                        /\ dialogs' =
                                              IF o1 = "ok" /\ o2 = "ok"
                                              THEN {}
                                              ELSE {"Failed to save server data"}
                      /\ wrote' = TRUE
                      /\ credOp' = [op |-> "edit_server_dialog",
                                    name |-> new_name]
                      /\ main_status' = "Updated server"
                      /\ UNCHANGED <<client, sess, connected_server_name,
                                     controls_enabled, upload_button,
                                     download_button, fb, conns, xfers,
                                     afterQ, svc, remote>>

\* -------------------------------------------------- worker thread records
IdleConn == [st |-> "idle", name |-> None, ok |-> FALSE, msg |-> None]
IdleXfer == [st |-> "idle", kind |-> None, dir |-> NoPath, ok |-> FALSE]
DoneConn == [IdleConn EXCEPT !.st = "done"]
DoneXfer == [IdleXfer EXCEPT !.st = "done"]

\* Messages SSHConnection.connect returns, one per except branch.
FailureMsgs == {"Authentication failed", "SSH error", "Connection failed"}
SuccessMsg == "Successfully connected"

FreeConn == {w \in ConnIds : conns[w].st = "idle"}
FreeXfer == {t \in XferIds : xfers[t].st = "idle"}

\* Transfers started whose completion callback has not run yet.
InFlight == {t \in XferIds : /\ xfers[t].st \in {"running", "posted"}
                              /\ xfers[t].kind \in {"upload", "download"}}

\* SSH sessions opened by the application and not closed.
OpenSessions == {c \in ConnIds : sess[c] = "open"}

\* ------------------------------------------------- main window handlers
\* Mutant of connect_to_server_by_name: the is_connected() test is missing.
connect_to_server_by_name_unguarded(server_name) ==
    IF get_server(server_name) = NoServer
    THEN /\ dialogs' = {"Server data not found"}
         /\ UNCHANGED <<guiVars, credVars>>
    ELSE /\ FreeConn # {}
         /\ LET w == CHOOSE x \in FreeConn : \A y \in FreeConn : x <= y
            IN  conns' = [conns EXCEPT ![w] = [st |-> "start",
                                              name |-> server_name,
                                              ok |-> FALSE, msg |-> None]]
         /\ main_status' = "Connecting"
         /\ controls_enabled' = FALSE
         /\ dialogs' = {}
         /\ UNCHANGED <<client, sess, connected_server_name, upload_button,
                        download_button, fb, xfers, afterQ, svc,
                        remote, credVars>>

\* ServerManagerGUI.connect_to_server_by_name, on the event thread.
connect_to_server_by_name(server_name) ==
    IF is_connected
    THEN /\ dialogs' = {"Already Connected"}
         /\ UNCHANGED <<guiVars, credVars>>
    ELSE IF get_server(server_name) = NoServer
    THEN /\ dialogs' = {"Server data not found"}
         /\ UNCHANGED <<guiVars, credVars>>
    ELSE /\ FreeConn # {}
         /\ LET w == CHOOSE x \in FreeConn : \A y \in FreeConn : x <= y
            IN  conns' = [conns EXCEPT ![w] = [st |-> "start",
                                              name |-> server_name,
                                              ok |-> FALSE, msg |-> None]]
         /\ main_status' = "Connecting"
         /\ controls_enabled' = FALSE
         /\ dialogs' = {}
         /\ UNCHANGED <<client, sess, connected_server_name, upload_button,
                        download_button, fb, xfers, afterQ, svc,
                        remote, credVars>>

\* ServerManagerGUI.connect_to_server (menu Connect); sel is the selected
\* server name or None.
connect_to_server ==
    /\ \E sel \in DOMAIN servers \cup {None} :
          IF sel = None
          THEN /\ dialogs' = {"Please select a server"}
               /\ UNCHANGED <<guiVars, credVars>>
          ELSE connect_to_server_by_name(sel)

\* ServerManagerGUI.on_server_double_click on the row of server_name.
on_server_double_click ==
    /\ \E server_name \in DOMAIN servers :
          IF ~is_connected \/ connected_server_name # server_name
          THEN connect_to_server_by_name(server_name)
          ELSE \E o \in AttachOutcomes :
                  LET r == attach_client(fb, client, sess, o.sftp, o.lst)
                  IN  /\ fb' = r.fb
                      /\ dialogs' = r.dlg
                      /\ UNCHANGED <<client, sess, connected_server_name,
                                     controls_enabled, upload_button,
                                     download_button, main_status, conns,
                                     xfers, afterQ, svc, remote, credVars>>

\* connect_thread, first part: SSHConnection.connect assigns self.client a
\* new SSHClient.  Runs on the worker thread.
connect_thread_assign(w) ==
    /\ conns[w].st = "start"
    /\ client' = w
    /\ sess' = [sess EXCEPT ![w] = "new"]
    /\ conns' = [conns EXCEPT ![w].st = "assigned"]
    /\ dialogs' = {}
    /\ UNCHANGED <<connected_server_name, controls_enabled, upload_button,
                   download_button, main_status, fb, xfers, afterQ, svc,
                   remote, credVars>>

\* connect_thread, second part: self.client.connect(...) on whatever
\* self.client is now, the except branches, and root.after(0, ...).
connect_thread_connect(w) ==
    /\ conns[w].st = "assigned"
    /\ \E ok \in BOOLEAN, m \in FailureMsgs :
          /\ ok => client # NoClient
          /\ client = NoClient => m = "Connection failed"
          /\ sess' = IF ok THEN [sess EXCEPT ![client] = "open"] ELSE sess
          /\ conns' = [conns EXCEPT ![w].st = "posted", ![w].ok = ok,
                          ![w].msg = IF ok THEN SuccessMsg ELSE m]
    /\ afterQ' = Append(afterQ, [type |-> "conn", id |-> w])
    /\ dialogs' = {}
    /\ UNCHANGED <<client, connected_server_name, controls_enabled,
                   upload_button, download_button, main_status, fb, xfers,
                   svc, remote, credVars>>

\* ------------------------------------------------------- services panel
MaxSvcJobs == 2    \* status-refresh / log-fetch worker threads alive at once
MaxTimers == 1     \* start / stop actions whose two timers are still pending

SvcJobIds == 1..MaxSvcJobs

NoService == <<>>                  \* the empty service name ''
NoSel == <<"None">>                \* no row selected in services_tree
NoCmd == [action |-> None, service |-> NoService]

IdleJob == [st |-> "idle", kind |-> None, services |-> <<>>, status |-> "",
            service |-> NoService]

\* The services panel before any connection.
InitSvc ==
    [tree |-> <<>>, ui_enabled |-> FALSE, timers |-> <<>>,
     jobs |-> [k \in SvcJobIds |-> IdleJob], issued |-> NoCmd,
     logs |-> NoService]

FreeJob(sv) == {k \in SvcJobIds : sv.jobs[k].st = "idle"}

\* threading.Thread(target=worker).start() for a worker of the given kind.
start_job(sv, kind, service) ==
    LET k == CHOOSE x \in FreeJob(sv) : \A y \in FreeJob(sv) : x <= y
    IN  [sv EXCEPT !.jobs[k] = [IdleJob EXCEPT !.st = "started",
                                               !.kind = kind,
                                               !.service = service]]

\* ServerManagerGUI._refresh_services_status_async; connected is the value
\* of is_connected() when it runs.
refresh_services_status_async(sv, connected) ==
    IF connected THEN start_job(sv, "refresh", NoService) ELSE sv

\* ServerManagerGUI._fetch_service_logs_async
fetch_service_logs_async(sv, connected, service) ==
    IF connected /\ service # NoService
    THEN start_job(sv, "logs", service)
    ELSE sv

\* ServerManagerGUI._load_services_for_connected for a connected_server_name
\* that is set: the rows are the stored services with an empty status.
load_services_for_connected(sv, name, connected) ==
    LET svcs == get_services(name)
        rows == [i \in 1..Len(svcs) |-> [name |-> svcs[i], status |-> ""]]
    IN  refresh_services_status_async(
            [sv EXCEPT !.tree = rows, !.ui_enabled = connected], connected)

\* The services part of disconnect_from_server: the rows are deleted and the
\* panel is disabled.
clear_services(sv) == [sv EXCEPT !.tree = <<>>, !.ui_enabled = FALSE]

\* ServerManagerGUI.connection_result, run from the after() queue.
connection_result ==
    /\ afterQ # <<>>
    /\ Head(afterQ).type = "conn"
    /\ LET w == Head(afterQ).id
       IN  /\ controls_enabled' = TRUE
           /\ main_status' = conns[w].msg
           /\ conns' = [conns EXCEPT ![w] = DoneConn]
           /\ IF conns[w].ok
              THEN /\ connected_server_name' = conns[w].name
                   /\ \E o \in AttachOutcomes :
                         LET r == attach_client(fb, client, sess, o.sftp, o.lst)
                         IN  /\ fb' = r.fb
                             /\ dialogs' = r.dlg
                   /\ upload_button' = TRUE
                   /\ download_button' = TRUE
                   /\ is_connected => FreeJob(svc) # {}
                   /\ svc' = load_services_for_connected(svc, conns[w].name,
                                                         is_connected)
              ELSE /\ connected_server_name' = None
                   /\ fb' = attach_client(fb, NoClient, sess, "ok",
                                          NoListing).fb
                   /\ upload_button' = FALSE
                   /\ download_button' = FALSE
                   /\ dialogs' = {"Connection Failed"}
                   /\ svc' = svc
    /\ afterQ' = Tail(afterQ)
    /\ UNCHANGED <<client, sess, xfers, remote, credVars>>

\* ServerManagerGUI.disconnect_from_server (menu Disconnect).
disconnect_from_server ==
    /\ IF is_connected
       THEN /\ client' = SSHdisconnect(client, sess).client
            /\ sess' = SSHdisconnect(client, sess).sess
            /\ connected_server_name' = None
            /\ fb' = attach_client(fb, NoClient, sess, "ok", NoListing).fb
            /\ upload_button' = FALSE
            /\ download_button' = FALSE
            /\ svc' = clear_services(svc)
            /\ main_status' = "Disconnected"
            /\ dialogs' = {"Disconnected"}
       ELSE /\ dialogs' = {"Not Connected"}
            /\ UNCHANGED <<client, sess, connected_server_name, fb,
                           upload_button, download_button, main_status, svc>>
    /\ UNCHANGED <<controls_enabled, conns, xfers, afterQ, remote, credVars>>

\* ------------------------------------------------ file browser handlers
\* What stat() of the upload target / the chosen local path can find.
Existing == {"none", "dir", "file"}

\* Rows the user can have selected in the remote tree.
Selectable == {fb.tree[i] : i \in 1..Len(fb.tree)} \cup {NoRow}

\* Mutant of transfer_busy: the busy flag is never looked at.
transfer_busy_ignored(f) == FALSE

\* Busy-flag test shared by prompt_and_upload and prompt_and_download
\* (getattr(self, '_transfer_in_progress', False)).
transfer_busy(f) == f.transfer_in_progress

\* Start of a transfer: busy flag, status, set_enabled(False), Thread.start.
start_transfer(kind, dir, statusText) ==
    /\ FreeXfer # {}
    /\ LET t == CHOOSE x \in FreeXfer : \A y \in FreeXfer : x <= y
       IN  xfers' = [xfers EXCEPT ![t] = [st |-> "running", kind |-> kind,
                                         dir |-> dir, ok |-> FALSE]]
    /\ fb' = set_enabled([fb EXCEPT !.transfer_in_progress = TRUE,
                                    !.status = statusText], FALSE)
    /\ dialogs' = {}

\* Mutant of prompt_and_upload_for: a directory at the target is treated
\* like a file (overwrite question, then upload).
prompt_and_upload_for_no_dir_check(picked, sel, existing, overwrite) ==
    /\ IF fb.sftp_client = NoClient
       THEN dialogs' = {"Not Connected"} /\ UNCHANGED <<fb, xfers>>
       ELSE IF transfer_busy(fb)
       THEN /\ fb' = [fb EXCEPT !.status = "Another transfer is in progress"]
            /\ dialogs' = {}
            /\ UNCHANGED xfers
       ELSE IF ~picked
       THEN dialogs' = {} /\ UNCHANGED <<fb, xfers>>
       ELSE LET remote_dir == get_active_or_selected_dir(fb, sel)
            IN  IF remote_dir = NoPath
                THEN dialogs' = {"No Target"} /\ UNCHANGED <<fb, xfers>>
                ELSE IF existing # "none" /\ ~overwrite
                THEN dialogs' = {} /\ UNCHANGED <<fb, xfers>>
                ELSE /\ Len(remote_dir) <= MaxDepth
                     /\ start_transfer("upload", remote_dir, "Uploading")
    /\ UNCHANGED <<client, sess, connected_server_name, controls_enabled,
                   upload_button, download_button, main_status, conns,
                   afterQ, svc, remote, credVars>>

\* RemoteFileBrowserFrame.prompt_and_upload for given inputs: whether a local
\* file was picked, the selected row, what stat finds at the target path
\* (nothing also when stat raises), the answer to the overwrite question.
prompt_and_upload_for(picked, sel, existing, overwrite) ==
    /\ IF fb.sftp_client = NoClient
       THEN dialogs' = {"Not Connected"} /\ UNCHANGED <<fb, xfers>>
       ELSE IF transfer_busy(fb)
       THEN /\ fb' = [fb EXCEPT !.status = "Another transfer is in progress"]
            /\ dialogs' = {}
            /\ UNCHANGED xfers
       ELSE IF ~picked
       THEN dialogs' = {} /\ UNCHANGED <<fb, xfers>>
       ELSE LET remote_dir == get_active_or_selected_dir(fb, sel)
            IN  IF remote_dir = NoPath
                THEN dialogs' = {"No Target"} /\ UNCHANGED <<fb, xfers>>
                ELSE IF existing = "dir"
                THEN dialogs' = {"Upload Error"} /\ UNCHANGED <<fb, xfers>>
                ELSE IF existing = "file" /\ ~overwrite
                THEN dialogs' = {} /\ UNCHANGED <<fb, xfers>>
                ELSE /\ Len(remote_dir) <= MaxDepth
                     /\ start_transfer("upload", remote_dir, "Uploading")
    /\ UNCHANGED <<client, sess, connected_server_name, controls_enabled,
                   upload_button, download_button, main_status, conns,
                   afterQ, svc, remote, credVars>>

\* The inputs matter in the order the handler asks for them: a selection and
\* a stat only after a file was picked, an answer only to a question asked.
prompt_and_upload ==
    \E picked \in BOOLEAN :
       \E sel \in (IF picked THEN Selectable ELSE {NoRow}),
          existing \in (IF picked THEN Existing ELSE {"none"}) :
          \E overwrite \in (IF existing = "file" THEN BOOLEAN ELSE {TRUE}) :
             prompt_and_upload_for(picked, sel, existing, overwrite)

\* Mutant of prompt_and_download_for: an existing local file is overwritten
\* without the question.
prompt_and_download_for_no_question(sel, picked, existing, overwrite) ==
    /\ IF fb.sftp_client = NoClient
       THEN dialogs' = {"Not Connected"} /\ UNCHANGED <<fb, xfers>>
       ELSE IF transfer_busy(fb)
       THEN /\ fb' = [fb EXCEPT !.status = "Another transfer is in progress"]
            /\ dialogs' = {}
            /\ UNCHANGED xfers
       ELSE IF sel = NoRow
       THEN dialogs' = {"No Selection"} /\ UNCHANGED <<fb, xfers>>
       ELSE IF sel.type # "File"
       THEN dialogs' = {"Invalid Selection"} /\ UNCHANGED <<fb, xfers>>
       ELSE IF ~picked
       THEN dialogs' = {} /\ UNCHANGED <<fb, xfers>>
       ELSE IF existing = "dir"
       THEN dialogs' = {"Download Error"} /\ UNCHANGED <<fb, xfers>>
       ELSE start_transfer("download", fb.current_path, "Downloading")
    /\ UNCHANGED <<client, sess, connected_server_name, controls_enabled,
                   upload_button, download_button, main_status, conns,
                   afterQ, svc, remote, credVars>>

\* RemoteFileBrowserFrame.prompt_and_download for given inputs: the selected
\* row, whether a local path was picked, what exists at that path, the answer
\* to the overwrite question.
prompt_and_download_for(sel, picked, existing, overwrite) ==
    /\ IF fb.sftp_client = NoClient
       THEN dialogs' = {"Not Connected"} /\ UNCHANGED <<fb, xfers>>
       ELSE IF transfer_busy(fb)
       THEN /\ fb' = [fb EXCEPT !.status = "Another transfer is in progress"]
            /\ dialogs' = {}
            /\ UNCHANGED xfers
       ELSE IF sel = NoRow
       THEN dialogs' = {"No Selection"} /\ UNCHANGED <<fb, xfers>>
       ELSE IF sel.type # "File"
       THEN dialogs' = {"Invalid Selection"} /\ UNCHANGED <<fb, xfers>>
       ELSE IF ~picked
       THEN dialogs' = {} /\ UNCHANGED <<fb, xfers>>
       ELSE IF existing = "dir"
       THEN dialogs' = {"Download Error"} /\ UNCHANGED <<fb, xfers>>
       ELSE IF existing = "file" /\ ~overwrite
       THEN dialogs' = {} /\ UNCHANGED <<fb, xfers>>
       ELSE start_transfer("download", fb.current_path, "Downloading")
    /\ UNCHANGED <<client, sess, connected_server_name, controls_enabled,
                   upload_button, download_button, main_status, conns,
                   afterQ, svc, remote, credVars>>

prompt_and_download ==
    \E sel \in Selectable :
       \E picked \in (IF sel.type = "File" THEN BOOLEAN ELSE {FALSE}) :
          \E existing \in (IF picked THEN Existing ELSE {"none"}) :
             \E overwrite \in (IF existing = "file" THEN BOOLEAN ELSE {TRUE}) :
                prompt_and_download_for(sel, picked, existing, overwrite)

\* Mutant of do_transfer: a failed put / get ends the worker without a
\* callback.
do_transfer_no_callback_on_error(t) ==
    /\ xfers[t].st = "running"
    /\ xfers[t].kind \in {"upload", "download"}
    /\ \E ok \in BOOLEAN :
          /\ ok => (fb.sftp_client # NoClient /\ sess[fb.sftp_client] = "open")
          /\ xfers' = [xfers EXCEPT ![t].st = IF ok THEN "posted" ELSE "lost",
                                    ![t].ok = ok]
          /\ afterQ' = IF ok THEN Append(afterQ, [type |-> "xfer", id |-> t])
                              ELSE afterQ
    /\ dialogs' = {}
    /\ UNCHANGED <<client, sess, connected_server_name, controls_enabled,
                   upload_button, download_button, main_status, fb, conns,
                   svc, remote, credVars>>

\* _do_upload / _do_download on the worker thread: the SFTP put / get on
\* whatever self.sftp_client is now, then self.after(0, ...).
do_transfer(t) ==
    /\ xfers[t].st = "running"
    /\ xfers[t].kind \in {"upload", "download"}
    /\ \E ok \in BOOLEAN :
          /\ ok => (fb.sftp_client # NoClient /\ sess[fb.sftp_client] = "open")
          /\ xfers' = [xfers EXCEPT ![t].st = "posted", ![t].ok = ok]
    /\ afterQ' = Append(afterQ, [type |-> "xfer", id |-> t])
    /\ dialogs' = {}
    /\ UNCHANGED <<client, sess, connected_server_name, controls_enabled,
                   upload_button, download_button, main_status, fb, conns,
                   svc, remote, credVars>>

\* RemoteFileBrowserFrame._after_upload, run from the after() queue.
after_upload ==
    /\ afterQ # <<>>
    /\ Head(afterQ).type = "xfer"
    /\ xfers[Head(afterQ).id].kind = "upload"
    /\ LET t == Head(afterQ).id
           f1 == set_enabled([fb EXCEPT !.transfer_in_progress = FALSE], TRUE)
       IN  /\ xfers' = [xfers EXCEPT ![t] = DoneXfer]
           /\ IF xfers[t].ok
              THEN \E lst \in ListingOutcomes :
                      LET r == list_directory([f1 EXCEPT !.status = "Uploaded"],
                                              xfers[t].dir, lst)
                      IN  fb' = r.fb /\ dialogs' = r.dlg
              ELSE /\ fb' = [f1 EXCEPT !.status = "Upload failed"]
                   /\ dialogs' = {"Upload Failed"}
    /\ afterQ' = Tail(afterQ)
    /\ UNCHANGED <<client, sess, connected_server_name, controls_enabled,
                   upload_button, download_button, main_status, conns,
                   svc, remote, credVars>>

\* RemoteFileBrowserFrame._after_download, run from the after() queue.
after_download ==
    /\ afterQ # <<>>
    /\ Head(afterQ).type = "xfer"
    /\ xfers[Head(afterQ).id].kind = "download"
    /\ LET t == Head(afterQ).id
           f1 == set_enabled([fb EXCEPT !.transfer_in_progress = FALSE], TRUE)
       IN  /\ xfers' = [xfers EXCEPT ![t] = DoneXfer]
           /\ IF xfers[t].ok
              THEN fb' = [f1 EXCEPT !.status = "Downloaded"] /\ dialogs' = {}
              ELSE /\ fb' = [f1 EXCEPT !.status = "Download failed"]
                   /\ dialogs' = {"Download Failed"}
    /\ afterQ' = Tail(afterQ)
    /\ UNCHANGED <<client, sess, connected_server_name, controls_enabled,
                   upload_button, download_button, main_status, conns,
                   svc, remote, credVars>>

\* RemoteFileBrowserFrame.on_item_double_click on the focused row: item is
\* that row or NoRow, lst the answer to the listing of a directory, ans the
\* answer to the opening of a file.
on_item_double_click(item, lst, ans) ==
    /\ item \in Selectable
    /\ item.type = "Directory" => Len(fb.current_path) < MaxDepth
    /\ LET target == Append(fb.current_path, item.name)
           r == IF item = NoRow
                THEN [fb |-> fb, dlg |-> {}]
                ELSE IF item.type = "Directory"
                THEN list_directory(fb, target, lst)
                ELSE open_remote_file(fb, target, ans)
       IN  fb' = r.fb /\ dialogs' = r.dlg
    /\ UNCHANGED <<client, sess, connected_server_name, controls_enabled,
                   upload_button, download_button, main_status, conns,
                   xfers, afterQ, svc, remote, credVars>>

\* RemoteFileBrowserFrame.go_up_directory (the ".." button).
go_up_directory(lst) ==
    /\ fb.enabled
    /\ LET r == list_directory(fb, Parent(fb.current_path), lst)
       IN  fb' = r.fb /\ dialogs' = r.dlg
    /\ UNCHANGED <<client, sess, connected_server_name, controls_enabled,
                   upload_button, download_button, main_status, conns,
                   xfers, afterQ, svc, remote, credVars>>

\* RemoteFileBrowserFrame._on_text_modified: the user has typed in the
\* editor.
on_text_modified ==
    /\ fb.editor_enabled
    /\ fb' = [fb EXCEPT !.editor_text = "typed text",
                        !.editor_dirty = TRUE,
                        !.status = "Editing (modified)"]
    /\ dialogs' = {}
    /\ UNCHANGED <<client, sess, connected_server_name, controls_enabled,
                   upload_button, download_button, main_status, conns,
                   xfers, afterQ, svc, remote, credVars>>

\* RemoteFileBrowserFrame.save_open_file (the Save button); confirm is the
\* answer to the Confirm Save question.
save_open_file(confirm) ==
    /\ fb.editor_enabled
    /\ dialogs' = {}
    /\ IF fb.sftp_client = NoClient \/ fb.open_file_path = NoPath \/ ~confirm
       THEN UNCHANGED <<fb, xfers>>
       ELSE /\ FreeXfer # {}
            /\ LET t == CHOOSE x \in FreeXfer : \A y \in FreeXfer : x <= y
               IN  xfers' = [xfers EXCEPT ![t] = [st |-> "running",
                                                 kind |-> "save",
                                                 dir |-> fb.open_file_path,
                                                 ok |-> FALSE]]
            /\ fb' = [fb EXCEPT !.status = "Saving",
                                !.editor_enabled = FALSE]
    /\ UNCHANGED <<client, sess, connected_server_name, controls_enabled,
                   upload_button, download_button, main_status, conns,
                   afterQ, svc, remote, credVars>>

\* _do_save on the worker thread: opens self.open_file_path, as it is now,
\* for writing on self.sftp_client and writes the captured content; dir,
\* until now the path named in the Confirm Save question, records the path
\* written.
do_save(t) ==
    /\ xfers[t].st = "running"
    /\ xfers[t].kind = "save"
    /\ \E ok \in BOOLEAN :
          /\ ok => (fb.sftp_client # NoClient /\ sess[fb.sftp_client] = "open")
          /\ xfers' = [xfers EXCEPT ![t].st = "posted", ![t].ok = ok,
                          ![t].dir = IF ok THEN fb.open_file_path ELSE NoPath]
    /\ afterQ' = Append(afterQ, [type |-> "xfer", id |-> t])
    /\ dialogs' = {}
    /\ UNCHANGED <<client, sess, connected_server_name, controls_enabled,
                   upload_button, download_button, main_status, fb, conns,
                   svc, remote, credVars>>

\* RemoteFileBrowserFrame._after_save, run from the after() queue.
after_save(lst) ==
    /\ afterQ # <<>>
    /\ Head(afterQ).type = "xfer"
    /\ xfers[Head(afterQ).id].kind = "save"
    /\ LET t == Head(afterQ).id
           f1 == [fb EXCEPT !.editor_enabled = TRUE]
       IN  /\ xfers' = [xfers EXCEPT ![t] = DoneXfer]
           /\ IF xfers[t].ok
              THEN LET r == list_directory(
                               [f1 EXCEPT !.editor_dirty = FALSE,
                                          !.status = "Saved"],
                               fb.current_path, lst)
                   IN  fb' = r.fb /\ dialogs' = r.dlg
              ELSE /\ fb' = [f1 EXCEPT !.status = "Save failed"]
                   /\ dialogs' = {"Save Failed"}
    /\ afterQ' = Tail(afterQ)
    /\ UNCHANGED <<client, sess, connected_server_name, controls_enabled,
                   upload_button, download_button, main_status, conns,
                   svc, remote, credVars>>

\* --------------------------------------------------------- permissions
MaxToggles == 1    \* checkboxes the user toggles before pressing OK
MaxChmods == 2     \* chmod calls issued in one run

\* a & b and a | b on non-negative integers, bit by bit.
RECURSIVE BitAnd(_, _)
BitAnd(a, b) ==
    IF a = 0 \/ b = 0
    THEN 0
    ELSE (a % 2) * (b % 2) + 2 * BitAnd(a \div 2, b \div 2)

RECURSIVE BitOr(_, _)
BitOr(a, b) ==
    IF a = 0 THEN b
    ELSE IF b = 0 THEN a
    ELSE (IF a % 2 = 1 \/ b % 2 = 1 THEN 1 ELSE 0)
            + 2 * BitOr(a \div 2, b \div 2)

\* a & ~b: the bits of a that are not bits of b.
AndNot(a, b) == a - BitAnd(a, b)

\* stat.S_IRUSR ... stat.S_IXOTH in the order of the checkboxes
\* ur uw ux gr gw gx or ow ox.
PermBits == <<256, 128, 64, 32, 16, 8, 4, 2, 1>>

\* The checkboxes PermissionsDialog.__init__ ticks for current_mode.
Ticked(current_mode) ==
    {k \in 1..9 : BitAnd(current_mode, PermBits[k]) # 0}

\* PermissionsDialog.ok: the bits of the ticked checkboxes or-ed together.
RECURSIVE OrBits(_)
OrBits(S) ==
    IF S = {}
    THEN 0
    ELSE LET k == CHOOSE x \in S : TRUE
         IN  BitOr(PermBits[k], OrBits(S \ {k}))

\* PermissionsDialog for current_mode when the user toggles the checkboxes
\* in toggled and presses OK: the dialog result.
permissions_result(current_mode, toggled) ==
    LET before == Ticked(current_mode)
        after == (before \ toggled) \cup (toggled \ before)
    IN  OrBits(after)

\* Mutant of new_mode_of: the permission bits alone are sent.
new_mode_of_perm_bits_only(st_mode, new_perm_bits) ==
    BitAnd(new_perm_bits, 511)

\* new_mode = (attr.st_mode & ~0o777) | (new_perm_bits & 0o777)
new_mode_of(st_mode, new_perm_bits) ==
    BitOr(AndNot(st_mode, 511), BitAnd(new_perm_bits, 511))

\* What the user does in the PermissionsDialog: Cancel, or a set of
\* checkboxes toggled and OK.
Cancelled == {0}
DialogChoices ==
    {Cancelled} \cup {T \in SUBSET (1..9) : Cardinality(T) <= MaxToggles}

\* RemoteFileBrowserFrame.change_permissions_selected: sel is the selected
\* row, stat_ok whether stat of it succeeds, choice what the user does in
\* the dialog, chmod_ok whether chmod succeeds, lst the listing that follows.
change_permissions_selected(sel, stat_ok, choice, chmod_ok, lst) ==
    /\ IF fb.sftp_client = NoClient \/ sel = NoRow \/ ~stat_ok
          \/ choice = Cancelled
       THEN /\ dialogs' = {}
            /\ UNCHANGED <<fb, remote>>
       ELSE LET new_perm_bits == permissions_result(remote.mode, choice)
                new_mode == new_mode_of(remote.mode, new_perm_bits)
            IN  IF chmod_ok
                THEN LET r == list_directory(
                                 [fb EXCEPT !.status = "Permissions updated"],
                                 fb.current_path, lst)
                     IN  /\ remote' = [mode |-> new_mode,
                                       chmod_arg |-> new_mode,
                                       calls |-> remote.calls + 1]
                         /\ fb' = r.fb
                         /\ dialogs' = r.dlg
                ELSE /\ remote' = [remote EXCEPT !.chmod_arg = new_mode,
                                                  !.calls = @ + 1]
                     /\ dialogs' = {"Change Permissions Failed"}
                     /\ fb' = fb
    /\ UNCHANGED <<client, sess, connected_server_name, controls_enabled,
                   upload_button, download_button, main_status, conns,
                   xfers, afterQ, svc, credVars>>

\* ------------------------------------------------ services panel handlers
SvcActions == {"start", "stop", "status"}

\* Rows the user can have selected in services_tree.
SelectableSvc == {svc.tree[i].name : i \in 1..Len(svc.tree)} \cup {NoSel}

\* The two timers a start / stop action leaves: after(500, re-poll) and
\* after(600, log fetch of the service).
ActionTimers(service) ==
    <<[kind |-> "repoll", service |-> NoService],
      [kind |-> "logs", service |-> service]>>

\* Mutant of svc_action: a command that raised is followed by the timers
\* all the same.
svc_action_schedules_after_error(action, sel, raises) ==
    /\ IF ~is_connected
       THEN /\ dialogs' = {"Not Connected"}
            /\ svc' = [svc EXCEPT !.issued = NoCmd]
       ELSE IF sel = NoSel
       THEN /\ dialogs' = {}
            /\ svc' = [svc EXCEPT !.issued = NoCmd]
       ELSE IF action \in {"start", "stop"}
       THEN /\ Len(svc.timers) < 2 * MaxTimers
            /\ dialogs' = IF raises THEN {"SSH Error"} ELSE {}
            /\ svc' = [svc EXCEPT
                          !.issued = IF raises THEN NoCmd
                                     ELSE [action |-> action, service |-> sel],
                          !.timers = svc.timers \o ActionTimers(sel)]
       ELSE IF raises
       THEN /\ dialogs' = {"SSH Error"}
            /\ svc' = [svc EXCEPT !.issued = NoCmd]
       ELSE /\ dialogs' = {"Command Output"}
            /\ svc' = [svc EXCEPT !.issued = [action |-> action,
                                              service |-> sel]]
    /\ UNCHANGED <<client, sess, connected_server_name, controls_enabled,
                   upload_button, download_button, main_status, fb, conns,
                   xfers, afterQ, remote, credVars>>

\* ServerManagerGUI._svc_action (Start / Stop / Status buttons): sel is the
\* selected service or NoSel, raises whether exec_command raises; issued is
\* the command this call handed to exec_command, NoCmd if it handed none.
svc_action(action, sel, raises) ==
    /\ IF ~is_connected
       THEN /\ dialogs' = {"Not Connected"}
            /\ svc' = [svc EXCEPT !.issued = NoCmd]
       ELSE IF sel = NoSel
       THEN /\ dialogs' = {}
            /\ svc' = [svc EXCEPT !.issued = NoCmd]
       ELSE IF action \in {"start", "stop"}
       THEN IF raises
            THEN /\ dialogs' = {"SSH Error"}
                 /\ svc' = [svc EXCEPT !.issued = NoCmd]
            ELSE /\ Len(svc.timers) < 2 * MaxTimers
                 /\ dialogs' = {}
                 /\ svc' = [svc EXCEPT
                               !.issued = [action |-> action, service |-> sel],
                               !.timers = svc.timers \o ActionTimers(sel)]
       ELSE IF raises
       THEN /\ dialogs' = {"SSH Error"}
            /\ svc' = [svc EXCEPT !.issued = NoCmd]
       ELSE /\ dialogs' = {"Command Output"}
            /\ svc' = [svc EXCEPT !.issued = [action |-> action,
                                              service |-> sel]]
    /\ UNCHANGED <<client, sess, connected_server_name, controls_enabled,
                   upload_button, download_button, main_status, fb, conns,
                   xfers, afterQ, remote, credVars>>

\* Tk fires timers in the order of their due times: a re-poll (500 ms) is
\* due before every re-poll set later and before its own log fetch, a log
\* fetch (600 ms) before every log fetch set later.
TimerDue(i) ==
    /\ i \in 1..Len(svc.timers)
    /\ \A j \in 1..(i - 1) :
          /\ svc.timers[j].kind # svc.timers[i].kind
          /\ svc.timers[j].kind # "repoll"

Without(sq, i) == SubSeq(sq, 1, i - 1) \o SubSeq(sq, i + 1, Len(sq))

\* A timer set by _svc_action fires: _refresh_services_status_async or
\* _fetch_service_logs_async runs on the event thread.
timer_fire(i) ==
    /\ TimerDue(i)
    /\ is_connected => FreeJob(svc) # {}
    /\ LET t == svc.timers[i]
           sv == [svc EXCEPT !.timers = Without(svc.timers, i)]
       IN  svc' = IF t.kind = "repoll"
                  THEN refresh_services_status_async(sv, is_connected)
                  ELSE fetch_service_logs_async(sv, is_connected, t.service)
    /\ dialogs' = {}
    /\ UNCHANGED <<client, sess, connected_server_name, controls_enabled,
                   upload_button, download_button, main_status, fb, conns,
                   xfers, afterQ, remote, credVars>>

\* The status-refresh worker reads the services of the server connected now
\* (get_services(self.connected_server_name or '')), on the worker thread.
refresh_read(k) ==
    /\ svc.jobs[k].st = "started"
    /\ svc.jobs[k].kind = "refresh"
    /\ svc' = [svc EXCEPT !.jobs[k].st = "read",
                          !.jobs[k].services =
                              get_services(connected_server_name)]
    /\ dialogs' = {}
    /\ UNCHANGED <<client, sess, connected_server_name, controls_enabled,
                   upload_button, download_button, main_status, fb, conns,
                   xfers, afterQ, remote, credVars>>

\* The status-refresh worker asks systemctl is-active for each service over
\* self.ssh_connection.client as it is now (a failure gives 'unknown') and
\* posts update_ui with after(0, ...).
refresh_exec(k) ==
    /\ svc.jobs[k].st = "read"
    /\ \E status \in {"active", "unknown"} :
          /\ status = "active" => is_connected
          /\ svc' = [svc EXCEPT !.jobs[k].st = "posted",
                                !.jobs[k].status = status]
    /\ afterQ' = Append(afterQ, [type |-> "svc", id |-> k])
    /\ dialogs' = {}
    /\ UNCHANGED <<client, sess, connected_server_name, controls_enabled,
                   upload_button, download_button, main_status, fb, conns,
                   xfers, remote, credVars>>

\* The log-fetch worker runs journalctl and posts its update_ui.
logs_fetch(k) ==
    /\ svc.jobs[k].st = "started"
    /\ svc.jobs[k].kind = "logs"
    /\ svc' = [svc EXCEPT !.jobs[k].st = "posted"]
    /\ afterQ' = Append(afterQ, [type |-> "svc", id |-> k])
    /\ dialogs' = {}
    /\ UNCHANGED <<client, sess, connected_server_name, controls_enabled,
                   upload_button, download_button, main_status, fb, conns,
                   xfers, remote, credVars>>

\* update_ui of a status-refresh or log-fetch worker, run from the after()
\* queue: the rows are replaced by the worker's statuses, or the log text by
\* the worker's output.
update_ui ==
    /\ afterQ # <<>>
    /\ Head(afterQ).type = "svc"
    /\ LET k == Head(afterQ).id
           j == svc.jobs[k]
           sv == [svc EXCEPT !.jobs[k] = IdleJob]
       IN  svc' = IF j.kind = "refresh"
                  THEN [sv EXCEPT !.tree =
                           [i \in 1..Len(j.services) |->
                               [name |-> j.services[i], status |-> j.status]]]
                  ELSE [sv EXCEPT !.logs = j.service]
    /\ afterQ' = Tail(afterQ)
    /\ dialogs' = {}
    /\ UNCHANGED <<client, sess, connected_server_name, controls_enabled,
                   upload_button, download_button, main_status, fb, conns,
                   xfers, remote, credVars>>

\* ------------------------------------------------------- specification
\* The store the window was started with: one saved server.
StartServers == [n \in {"web1"} |->
                    [host |-> "h1", username |-> "u1", password |-> "p1",
                     port |-> 22]]

Init ==
    /\ client = NoClient
    /\ sess = [c \in ConnIds |-> "unused"]
    /\ connected_server_name = None
    /\ controls_enabled = TRUE
    /\ upload_button = FALSE
    /\ download_button = FALSE
    /\ main_status = "Ready"
    /\ fb = InitFb
    /\ conns = [w \in ConnIds |-> IdleConn]
    /\ xfers = [t \in XferIds |-> IdleXfer]
    /\ afterQ = <<>>
    /\ svc = InitSvc
    /\ remote = InitRemote
    /\ dialogs = {}
    /\ servers = StartServers
    /\ file = FileOf(StartServers)
    /\ wrote = FALSE
    /\ credOp = [op |-> "load_data", name |-> None]
    /\ ioBudget = 0

Next ==
    \/ connect_to_server
    \/ on_server_double_click
    \/ \E w \in ConnIds : connect_thread_assign(w)
    \/ \E w \in ConnIds : connect_thread_connect(w)
    \/ connection_result
    \/ disconnect_from_server
    \/ prompt_and_upload
    \/ prompt_and_download
    \/ \E t \in XferIds : do_transfer(t)
    \/ after_upload
    \/ after_download

Spec == Init /\ [][Next]_vars

\* The same program when the user waits for a connect attempt to be answered
\* before asking for the next one: no two connect threads run together.
NoConnectPending == \A w \in ConnIds : conns[w].st \in {"idle", "done"}

ConnectStarted == \E w \in ConnIds : conns[w].st = "idle" /\ conns'[w].st = "start"

SeqNext ==
    \/ connect_to_server /\ (ConnectStarted => NoConnectPending)
    \/ on_server_double_click /\ (ConnectStarted => NoConnectPending)
    \/ \E w \in ConnIds : connect_thread_assign(w)
    \/ \E w \in ConnIds : connect_thread_connect(w)
    \/ connection_result
    \/ disconnect_from_server
    \/ prompt_and_upload
    \/ prompt_and_download
    \/ \E t \in XferIds : do_transfer(t)
    \/ after_upload
    \/ after_download

SeqSpec == Init /\ [][SeqNext]_vars

\* The file browser on a connection that is up: the state after a connect
\* to web1 whose first listing returned a file and a directory.
BrowseInit ==
    /\ client = 1
    /\ sess = [c \in ConnIds |-> IF c = 1 THEN "open" ELSE "unused"]
    /\ connected_server_name = "web1"
    /\ controls_enabled = TRUE
    /\ upload_button = TRUE
    /\ download_button = TRUE
    /\ main_status = SuccessMsg
    /\ fb = attach_client(InitFb, 1, sess, "ok",
                          [ok |-> TRUE, items |-> <<FileRow, DirRow>>,
                           resolve |-> TRUE]).fb
    /\ conns = [w \in ConnIds |-> IF w = 1 THEN DoneConn ELSE IdleConn]
    /\ xfers = [t \in XferIds |-> IdleXfer]
    /\ afterQ = <<>>
    /\ dialogs = {}
    /\ servers = StartServers
    /\ file = FileOf(StartServers)
    /\ wrote = FALSE
    /\ credOp = [op |-> "load_data", name |-> None]
    /\ ioBudget = 0
    /\ svc = load_services_for_connected(InitSvc, "web1", TRUE)
    /\ remote = InitRemote

\* Browsing directories whose listings range over DirListings.
ListNext ==
    \/ \E item \in Selectable, lst \in DirListings :
          /\ item.type = "Directory"
          /\ on_item_double_click(item, lst, CHOOSE a \in FileAnswers : TRUE)
    \/ \E lst \in DirListings : go_up_directory(lst)

ListSpec == BrowseInit /\ [][ListNext]_vars

\* Browsing and editing: directories are entered and left, files opened,
\* edited and saved.
EditNext ==
    \/ \E item \in Selectable :
          \E lst \in (IF item.type = "Directory" THEN ListingOutcomes
                                                 ELSE {NoListing}),
             ans \in (IF item.type = "File" THEN FileAnswers
                                            ELSE {CHOOSE a \in FileAnswers : TRUE}) :
             on_item_double_click(item, lst, ans)
    \/ \E lst \in ListingOutcomes : go_up_directory(lst)
    \/ on_text_modified
    \/ \E confirm \in BOOLEAN : save_open_file(confirm)
    \/ \E t \in XferIds : do_save(t)
    \/ \E lst \in ListingOutcomes : after_save(lst)

EditSpec == BrowseInit /\ [][EditNext]_vars

\* Transfers on a connection that is up, with a disconnect at any moment.
XferNext ==
    \/ prompt_and_upload
    \/ prompt_and_download
    \/ \E t \in XferIds : do_transfer(t)
    \/ after_upload
    \/ after_download
    \/ disconnect_from_server

\* A started worker thread runs to its self.after(0, ...) once the SFTP call
\* returns, and the event loop runs every callback that was posted.
XferFairness ==
    /\ \A t \in XferIds : WF_vars(do_transfer(t))
    /\ WF_vars(after_upload)
    /\ WF_vars(after_download)

FairXferSpec == BrowseInit /\ [][XferNext]_vars /\ XferFairness

\* The services panel on a connection that is up: web1 has a favourite
\* service, the connect has loaded it and started the first refresh.
SvcServers == [n \in {"web1"} |->
                  [host |-> "h1", username |-> "u1", password |-> "p1",
                   port |-> 22, services |-> <<(<<"a">>)>>]]

SvcInit ==
    /\ client = 1
    /\ sess = [c \in ConnIds |-> IF c = 1 THEN "open" ELSE "unused"]
    /\ connected_server_name = "web1"
    /\ controls_enabled = TRUE
    /\ upload_button = TRUE
    /\ download_button = TRUE
    /\ main_status = SuccessMsg
    /\ fb = attach_client(InitFb, 1, sess, "ok",
                          [ok |-> TRUE, items |-> <<FileRow, DirRow>>,
                           resolve |-> TRUE]).fb
    /\ conns = [w \in ConnIds |-> IF w = 1 THEN DoneConn ELSE IdleConn]
    /\ xfers = [t \in XferIds |-> IdleXfer]
    /\ afterQ = <<>>
    /\ dialogs = {}
    /\ servers = SvcServers
    /\ file = FileOf(SvcServers)
    /\ wrote = FALSE
    /\ credOp = [op |-> "load_data", name |-> None]
    /\ ioBudget = 0
    /\ svc = load_services_for_connected(InitSvc, "web1", TRUE)
    /\ remote = InitRemote

\* Start / stop / status on the services, their timers and workers, and a
\* disconnect.
SvcNext ==
    \/ \E action \in SvcActions, sel \in SelectableSvc, raises \in BOOLEAN :
          svc_action(action, sel, raises)
    \/ \E i \in 1..Len(svc.timers) : timer_fire(i)
    \/ \E k \in SvcJobIds : refresh_read(k)
    \/ \E k \in SvcJobIds : refresh_exec(k)
    \/ \E k \in SvcJobIds : logs_fetch(k)
    \/ update_ui
    \/ disconnect_from_server

SvcSpec == SvcInit /\ [][SvcNext]_vars

\* Modes stat can report for the selected entry at the start: a file
\* rw-r--r--, a directory rwxr-xr-x, a setuid file rwxr-xr-x, a sticky
\* directory rwxrwxrwx, a setgid file without permissions.
StartModes == {33188, 16877, 35309, 17407, 33792}

\* The file browser on a connection that is up, for each start mode.
PermInit ==
    /\ client = 1
    /\ sess = [c \in ConnIds |-> IF c = 1 THEN "open" ELSE "unused"]
    /\ connected_server_name = "web1"
    /\ controls_enabled = TRUE
    /\ upload_button = TRUE
    /\ download_button = TRUE
    /\ main_status = SuccessMsg
    /\ fb = attach_client(InitFb, 1, sess, "ok",
                          [ok |-> TRUE, items |-> <<FileRow, DirRow>>,
                           resolve |-> TRUE]).fb
    /\ conns = [w \in ConnIds |-> IF w = 1 THEN DoneConn ELSE IdleConn]
    /\ xfers = [t \in XferIds |-> IdleXfer]
    /\ afterQ = <<>>
    /\ dialogs = {}
    /\ servers = StartServers
    /\ file = FileOf(StartServers)
    /\ wrote = FALSE
    /\ credOp = [op |-> "load_data", name |-> None]
    /\ ioBudget = 0
    /\ svc = load_services_for_connected(InitSvc, "web1", TRUE)
    /\ remote \in {[mode |-> m, chmod_arg |-> NoMode, calls |-> 0] :
                      m \in StartModes}

\* The listing that follows a chmod: it fails, or shows the two entries.
PermListings == {l \in ListingOutcomes : l.ok => l.resolve /\ l.items # <<>>}

\* Change Permissions on the selected row, again and again.
PermNext ==
    /\ remote.calls < MaxChmods
    /\ \E sel \in Selectable :
          \E stat_ok \in (IF sel = NoRow THEN {FALSE} ELSE BOOLEAN) :
             \E choice \in (IF stat_ok THEN DialogChoices ELSE {Cancelled}) :
                \E chmod_ok \in (IF choice = Cancelled THEN {FALSE}
                                                       ELSE BOOLEAN) :
                   \E lst \in (IF chmod_ok THEN PermListings
                                           ELSE {NoListing}) :
                      change_permissions_selected(sel, stat_ok, choice,
                                                  chmod_ok, lst)

PermSpec == PermInit /\ [][PermNext]_vars

\* The credential store on its own, from a fresh installation (no file),
\* with budget I/O failures still to come.
CredStart(budget) ==
    /\ client = NoClient
    /\ sess = [c \in ConnIds |-> "unused"]
    /\ connected_server_name = None
    /\ controls_enabled = TRUE
    /\ upload_button = FALSE
    /\ download_button = FALSE
    /\ main_status = "Ready"
    /\ fb = InitFb
    /\ conns = [w \in ConnIds |-> IdleConn]
    /\ xfers = [t \in XferIds |-> IdleXfer]
    /\ afterQ = <<>>
    /\ svc = InitSvc
    /\ remote = InitRemote
    /\ dialogs = {}
    /\ servers = EmptyStore
    /\ file = MissingFile
    /\ wrote = FALSE
    /\ credOp = [op |-> "load_data", name |-> None]
    /\ ioBudget = budget

\* A disk that never fails.
CredInit == CredStart(0)

\* A disk that can fail MaxIOFail times.
CredIOInit == CredStart(MaxIOFail)

CredNext ==
    \/ \E name \in Names, p \in Params : add_server(name, p)
    \/ \E name \in Names : delete_server(name)
    \/ \E name \in Names, services \in SvcLists : set_services(name, services)
    \/ load_data

CredSpec == CredInit /\ [][CredNext]_vars

CredIOSpec == CredIOInit /\ [][CredNext]_vars

\* The Add / Edit dialogs over the store: servers are added and edited
\* through the dialogs, deleted, and given favourite services.
DialogServices == {<<>>, <<(<<"a">>)>>}

DialogNext ==
    \/ \E typed \in TypedInputs : add_server_dialog(typed)
    \/ \E sel \in DOMAIN servers \cup {None}, typed \in EditInputs :
          edit_server_dialog(sel, typed)
    \/ \E name \in Names : delete_server(name)
    \/ \E name \in Names, services \in DialogServices :
          set_services(name, services)

DialogSpec == CredInit /\ [][DialogNext]_vars

\* ================================================================ claims
BusyText == "Another transfer is in progress"

\* The four connection parameters of a stored record.
ConnParams(r) ==
    [host |-> r.host, username |-> r.username, password |-> r.password,
     port |-> r.port]

WorkerStep ==
    \/ \E w \in ConnIds : connect_thread_assign(w) \/ connect_thread_connect(w)
    \/ \E t \in XferIds : do_transfer(t)

\* C1: at most one upload or download is in flight: the transfer workers
\* that were started and whose completion callback has not run number 0 or 1.
C1_OneTransferInFlight == Cardinality(InFlight) <= 1

\* C2 (as claimed): a prompt_and_upload / prompt_and_download made while
\* _transfer_in_progress is true only sets the status to the busy text; no
\* worker is started and the first transfer's record and callback stay.
C2_BusyOnlySetsStatus ==
    [][(prompt_and_upload \/ prompt_and_download) /\ fb.transfer_in_progress
          => /\ fb' = [fb EXCEPT !.status = BusyText]
             /\ UNCHANGED <<xfers, afterQ>>]_vars

\* C2 (amended): a prompt_and_upload / prompt_and_download made while
\* _transfer_in_progress is true starts no worker and changes neither the
\* busy flag, the enabled state nor the first transfer; with an SFTP client
\* attached it only sets the status to the busy text, without one it only
\* shows the Not Connected warning.
C2_BusyRejected ==
    [][(prompt_and_upload \/ prompt_and_download) /\ fb.transfer_in_progress
          => /\ UNCHANGED <<xfers, afterQ>>
             /\ fb'.transfer_in_progress = fb.transfer_in_progress
             /\ fb'.enabled = fb.enabled
             /\ IF fb.sftp_client # NoClient
                THEN fb' = [fb EXCEPT !.status = BusyText] /\ dialogs' = {}
                ELSE fb' = fb /\ dialogs' = {"Not Connected"}]_vars

\* A second request was answered with the busy text while a transfer is
\* still in flight.
C2_Witness ==
    /\ fb.status = BusyText
    /\ fb.transfer_in_progress
    /\ InFlight # {}

\* C3: at most one SSH session opened by the application is open at a time.
C3_OneSession == Cardinality(OpenSessions) <= 1

\* C4: connect_to_server_by_name called while is_connected() is true shows
\* the Already Connected warning and changes nothing else: no worker, same
\* client, connected_server_name, file browser and controls.
C4_ConnectRejectedWhileConnected ==
    [][\A name \in Names :
          connect_to_server_by_name(name) /\ is_connected
             => dialogs' = {"Already Connected"} /\ UNCHANGED guiVars]_vars

\* A connect request was refused on a live connection.
C4_Witness ==
    /\ dialogs = {"Already Connected"}
    /\ is_connected
    /\ connected_server_name # None
    /\ fb.sftp_client # NoClient

\* C5: no worker thread step assigns or clears SSHConnection.client.
C5_ClientOnlyOnEventThread == [][WorkerStep => client' = client]_vars

\* C6: once a failed connect attempt has been processed by
\* connection_result the application is disconnected: is_connected() false,
\* no connected_server_name, browser detached and disabled, Upload/Download
\* disabled, and the status shows the failure category's message.
C6_FailedConnectLeavesDisconnected ==
    dialogs = {"Connection Failed"}
       => /\ ~is_connected
          /\ connected_server_name = None
          /\ fb.ssh_client = NoClient
          /\ fb.sftp_client = NoClient
          /\ ~fb.enabled
          /\ ~upload_button
          /\ ~download_button
          /\ main_status \in FailureMsgs

\* C7: SSHConnection.disconnect is idempotent: on every handle state, live,
\* failed or never connected, one call leaves client None and is_connected()
\* false, and a second call changes nothing more.
C7_DisconnectIdempotent ==
    LET once == SSHdisconnect(client, sess)
        twice == SSHdisconnect(once.client, once.sess)
    IN  /\ once.client = NoClient
        /\ ~is_connected_of(once.client, once.sess)
        /\ twice = once

\* disconnect has closed a session that had been opened.
C7_Witness ==
    /\ dialogs = {"Disconnected"}
    /\ client = NoClient
    /\ \E c \in ConnIds : sess[c] = "closed"

\* C8: add_server(name, ...) followed by get_server(name) gives back the
\* host, username, password and port that were added, whatever the store
\* held before, and operations on other names leave them in place.
C8_AddThenGet ==
    [][/\ \A name \in Names, p \in Params :
             add_server(name, p) => ConnParams(get_server(name))' = p
       /\ \A n \in DOMAIN servers :
             \/ /\ n \in DOMAIN servers'
                /\ ConnParams(servers'[n]) = ConnParams(servers[n])
             \/ \E p \in Params : add_server(n, p)
             \/ delete_server(n)
             \/ load_data]_vars

\* Both names were added with different parameters, web1 last, and web2
\* still carries the services it was given.
C8_Witness ==
    /\ DOMAIN servers = Names
    /\ credOp = [op |-> "add_server", name |-> "web1"]
    /\ ConnParams(get_server("web1")) # ConnParams(get_server("web2"))
    /\ get_services("web2") # <<>>

\* C9: delete_server of a name that is not in the store changes neither the
\* map nor the file, calls no save and shows no error.
C9_DeleteAbsentNoOp ==
    [][\A name \in Names :
          name \notin DOMAIN servers /\ delete_server(name)
             => UNCHANGED <<servers, file>> /\ ~wrote' /\ dialogs' = {}]_vars

\* delete_server ran on an absent name while the store held another server.
C9_Witness ==
    /\ credOp = [op |-> "delete_server", name |-> "web2"]
    /\ "web2" \notin DOMAIN servers
    /\ "web1" \in DOMAIN servers
    /\ ~wrote

\* C10: set_services on a name that is not in the store creates no record,
\* leaves the map and the file as they are and calls no save.
C10_SetServicesUnknownNoOp ==
    [][\A name \in Names :
          /\ name \notin DOMAIN servers
          /\ credOp'.op = "set_services"
          /\ \E services \in SvcLists : set_services(name, services)
          => /\ UNCHANGED <<servers, file>>
             /\ name \notin DOMAIN servers'
             /\ ~wrote'
             /\ dialogs' = {}]_vars

\* set_services ran on an absent name while the store held another server.
C10_Witness ==
    /\ credOp = [op |-> "set_services", name |-> "web2"]
    /\ "web2" \notin DOMAIN servers
    /\ "web1" \in DOMAIN servers
    /\ ~wrote

\* The entry str without its leading and trailing blanks, said directly:
\* the part from its first to its last non-blank character.
Trimmed(str) ==
    LET idx == {i \in 1..Len(str) : str[i] # " "}
    IN  IF idx = {}
        THEN <<>>
        ELSE SubSeq(str, CHOOSE i \in idx : \A j \in idx : i <= j,
                         CHOOSE i \in idx : \A j \in idx : i >= j)

\* The list L trimmed, without empty entries and without later duplicates,
\* in the order of first occurrence.
FirstOccurrences(L) ==
    LET T == [i \in 1..Len(L) |-> Trimmed(L[i])]
        keep == {i \in 1..Len(L) :
                    T[i] # <<>> /\ \A j \in 1..(i - 1) : T[j] # T[i]}
    IN  [k \in 1..Cardinality(keep) |->
            T[CHOOSE i \in keep : Cardinality({j \in keep : j < i}) = k - 1]]

\* C11: after set_services(name, L) on a known name, get_services(name) is
\* L trimmed, without empty entries and later duplicates, first occurrences
\* in order; set_services with the list get_services returns leaves that
\* list as it is.
C11_SetServicesNormalizes ==
    [][\A name \in DOMAIN servers :
          credOp'.op = "set_services" /\ credOp'.name = name
             => \A L \in SvcLists :
                   (Normalize(L, <<>>) = servers'[name].services
                       /\ set_services(name, L))
                      => /\ get_services(name)' = FirstOccurrences(L)
                         /\ (L = get_services(name)
                                => get_services(name)' = L)]_vars

\* set_services has stored two distinct services for a known server, in an
\* order that is not the alphabetical one.
C11_Witness ==
    /\ credOp = [op |-> "set_services", name |-> "web1"]
    /\ wrote
    /\ get_services("web1") = <<(<<"b">>), (<<"a">>)>>

\* Position of each server name in ascending string order.
NameRank == [n \in Names |-> IF n = "web1" THEN 1 ELSE 2]

\* C12: after any sequence of add_server, delete_server and set_services
\* calls, list_servers() holds exactly the names in the store, each once, in
\* strictly ascending order.
C12_ListServersSorted ==
    /\ Len(list_servers) = Cardinality(DOMAIN servers)
    /\ {list_servers[i] : i \in 1..Len(list_servers)} = DOMAIN servers
    /\ \A i, j \in 1..Len(list_servers) :
          i < j => NameRank[list_servers[i]] < NameRank[list_servers[j]]

\* Both names are stored and the smaller one was added after the larger one
\* had been in the store.
C12_Witness ==
    /\ credOp = [op |-> "add_server", name |-> "web1"]
    /\ list_servers = <<"web1", "web2">>
    /\ "services" \in DOMAIN servers["web2"]
    /\ "services" \notin DOMAIN servers["web1"]

\* A step of the credential store that has to persist: add_server, a
\* delete_server of a stored name, a set_services on a stored name.
Mutation ==
    \/ credOp'.op = "add_server"
    \/ credOp'.op \in {"delete_server", "set_services"}
          /\ credOp'.name \in DOMAIN servers

\* C13: every mutation is flushed at once: add_server, delete_server of a
\* stored name and set_services on a stored name call save_data, and when
\* the save meets no I/O error the file holds the whole in-memory map, so a
\* load of that file (without I/O error) gives the same store.
C13_MutationsFlushed ==
    [][/\ Mutation => wrote'
       /\ wrote' /\ dialogs' = {} => file' = FileOf(servers')
       /\ wrote /\ dialogs = {} /\ load_data /\ dialogs' = {}
             => servers' = servers]_vars

\* A save went through after an earlier I/O failure, with a non-empty store.
C13_Witness ==
    /\ wrote
    /\ dialogs = {}
    /\ ioBudget < MaxIOFail
    /\ DOMAIN servers = Names
    /\ file = FileOf(servers)

\* A load that met an error: the file is there and cannot be read, or its
\* text is not valid JSON.
LoadFailed ==
    /\ credOp'.op = "load_data"
    /\ ~file.missing
    /\ file.corrupt \/ ioBudget' < ioBudget

\* A save that met an error: the file could not be opened or written.
SaveFailed == wrote' /\ ioBudget' < ioBudget

LowerName(n) == IF n = "B" THEN "b" ELSE n

AlphaRank(n) ==
    CASE n = "a" -> 1 [] n = "b" -> 2 [] n = "d" -> 3 [] n = "f" -> 4

\* rows hold every entry of items once, directories first, and each group in
\* non-decreasing order of the lower-cased name.
DirsFirstSorted(items, rows) ==
    /\ Len(rows) = Len(items)
    /\ {rows[i] : i \in 1..Len(rows)} = {items[i] : i \in 1..Len(items)}
    /\ \A i, j \in 1..Len(rows) :
          i < j =>
             /\ rows[j].type = "Directory" => rows[i].type = "Directory"
             /\ (rows[i].type = "Directory") = (rows[j].type = "Directory")
                   => AlphaRank(LowerName(rows[i].name))
                         <= AlphaRank(LowerName(rows[j].name))

\* C15: for every list of entries the server returns for a path, the rows
\* list_directory inserts hold every entry exactly once, every directory
\* before every non-directory, each group in non-decreasing order of the
\* lower-cased name.
C15_DirsThenFilesSorted ==
    [][\A lst \in DirListings :
          /\ lst.ok
          /\ \/ go_up_directory(lst)
             \/ \E item \in Selectable :
                   /\ item.type = "Directory"
                   /\ on_item_double_click(item, lst,
                                           CHOOSE a \in FileAnswers : TRUE)
          => DirsFirstSorted(lst.items, fb'.tree)]_vars

\* A listing below the initial directory shows directory b above the files
\* a and B, in that order.
C15_Witness ==
    /\ fb.current_path # RootPath
    /\ Len(fb.tree) = 3
    /\ fb.tree[1] = [name |-> "b", type |-> "Directory"]
    /\ fb.tree[2] = [name |-> "a", type |-> "File"]
    /\ fb.tree[3] = [name |-> "B", type |-> "File"]

C17_DownloadLocalChecks ==
    [][\A sel \in Selectable, picked \in BOOLEAN, existing \in Existing,
          overwrite \in BOOLEAN :
          /\ UNCHANGED <<conns, afterQ, sess>>
          /\ prompt_and_download_for(sel, picked, existing, overwrite)
          => /\ xfers' # xfers
                => /\ picked
                   /\ existing # "dir"
                   /\ existing = "file" => overwrite
             /\ /\ ~fb.transfer_in_progress
                /\ existing = "dir" \/ (existing = "file" /\ ~overwrite)
                => /\ UNCHANGED <<xfers, afterQ>>
                   /\ ~fb'.transfer_in_progress]_vars

\* A download onto a local directory was refused and no transfer runs.
C17_Witness ==
    /\ dialogs = {"Download Error"}
    /\ fb.enabled
    /\ ~fb.transfer_in_progress
    /\ InFlight = {}

\* The editor's state: text, open file, dirty flag, enabled state.
EditorState(f) ==
    <<f.editor_text, f.open_file_path, f.editor_dirty, f.editor_enabled>>

\* C18: open_remote_file loads a file into the editor only if its size is
\* at most 2,000,000 bytes and its content has no NUL byte; a larger file is
\* refused with the Large File warning, a file with a NUL byte with the
\* Binary File warning, and the editor's text, open_file_path, dirty flag and
\* enabled state stay as they were.
C18_OpenRejectsLargeAndBinary ==
    [][(fb.sftp_client # NoClient /\ fb'.current_path = fb.current_path
           /\ UNCHANGED <<xfers, afterQ>>)
       => \A item \in Selectable, ans \in FileAnswers :
          /\ item.type = "File"
          /\ on_item_double_click(item, NoListing, ans)
          => /\ (dialogs' = {} /\ ans.stat_ok /\ ~ans.is_dir)
                   \/ EditorState(fb') # EditorState(fb)
                => ans.size <= 2000000 /\ ~ans.nul
             /\ ans.stat_ok /\ ~ans.is_dir /\ ans.size > 2000000
                => dialogs' = {"Large File"} /\ EditorState(fb') = EditorState(fb)
             /\ ans.stat_ok /\ ~ans.is_dir /\ ans.size <= 2000000
                   /\ ans.read_ok /\ ans.nul
                => dialogs' = {"Binary File"}
                      /\ EditorState(fb') = EditorState(fb)]_vars

\* A binary file was refused while another file was open with unsaved edits.
C18_Witness ==
    /\ dialogs = {"Binary File"}
    /\ fb.open_file_path # NoPath
    /\ fb.editor_dirty
    /\ fb.editor_text = "typed text"

\* A step of the browser into another directory: a double-click on a
\* directory row or the ".." button, ending on a different current path.
Navigated ==
    /\ fb'.current_path # fb.current_path
    /\ \E lst \in ListingOutcomes :
          \/ go_up_directory(lst)
          \/ \E item \in Selectable :
                /\ item.type = "Directory"
                /\ on_item_double_click(item, lst,
                                        CHOOSE a \in FileAnswers : TRUE)

\* C19 (as claimed): after list_directory has moved the browser to a
\* different directory no file is open for editing: open_file_path and the
\* dirty flag are cleared.
C19_NavigationDiscardsOpenFile ==
    [][Navigated
          => fb'.open_file_path = NoPath /\ ~fb'.editor_dirty]_vars

\* C19 (amended): a move of the browser to a different directory leaves the
\* open file buffer as it is: open_file_path, dirty flag, text and the
\* editor's enabled state are unchanged.
C19_NavigationKeepsOpenFile ==
    [][Navigated => EditorState(fb') = EditorState(fb)]_vars

\* After the browser moved to another directory, Save has written the file
\* that was opened before, in the directory that was left.
C19_Witness ==
    \E t \in XferIds :
       /\ xfers[t].kind = "save"
       /\ xfers[t].st = "posted"
       /\ xfers[t].ok
       /\ xfers[t].dir = fb.open_file_path
       /\ Parent(xfers[t].dir) # fb.current_path

\* C20: while a client is attached to the file browser every entry of the
\* uid and gid caches was resolved over the attached connection, and the
\* owner and group names of a listing just made are names resolved over it
\* or plain numbers: no entry of an earlier connection is used.
C20_NameCacheOfCurrentConnection ==
    /\ fb.sftp_client # NoClient
          => /\ \A i \in DOMAIN fb.uid_cache : fb.uid_cache[i] = fb.ssh_client
             /\ \A i \in DOMAIN fb.gid_cache : fb.gid_cache[i] = fb.ssh_client
    /\ fb.status = "Listing"
          => fb.names_shown \subseteq {fb.ssh_client, NumericName}

\* On the second connection a listing shows names resolved over it.
C20_Witness ==
    /\ fb.status = "Listing"
    /\ fb.ssh_client = 2
    /\ fb.sftp_client = 2
    /\ sess[1] = "closed"
    /\ fb.names_shown = {2}
    /\ OwnerId \in DOMAIN fb.uid_cache

\* A list request of the browser (a double-click on a directory row or the
\* ".." button) whose remote listing is answered by lst, for the path target.
ListRequest(lst, target) ==
    \/ target = Parent(fb.current_path) /\ go_up_directory(lst)
    \/ \E item \in Selectable :
          /\ item.type = "Directory"
          /\ target = Append(fb.current_path, item.name)
          /\ on_item_double_click(item, lst, CHOOSE a \in FileAnswers : TRUE)

\* C21: a list request whose remote listing call fails shows the Error
\* dialog, leaves the browser on the requested path with no rows at all, and
\* has made exactly one listing call; no list request makes more than one.
C21_FailedListingEmptyNoRetry ==
    /\ [](fb.listdir_calls <= 1)
    /\ [][\A lst \in {l \in DirListings : ~l.ok} :
             \A target \in {Parent(fb.current_path)}
                             \cup {Append(fb.current_path, it.name) :
                                      it \in Selectable} :
                ListRequest(lst, target)
                   => /\ dialogs' = {"Error"}
                      /\ fb'.tree = <<>>
                      /\ fb'.current_path = target
                      /\ fb'.listdir_calls = 1]_vars

\* The listing of a subdirectory has failed: the browser stands on it with
\* the error shown and no rows.
C21_Witness ==
    /\ dialogs = {"Error"}
    /\ fb.status = "Error"
    /\ fb.current_path # RootPath
    /\ fb.tree = <<>>
    /\ fb.listdir_calls = 1

\* C22: a start or stop action that hands its command to exec_command
\* without an exception, while connected, leaves behind it a re-poll timer
\* and, after that one, a log-fetch timer for the service; when exec_command
\* raises, the SSH Error dialog is shown and no timer is set; when no
\* connection is active no command is issued and no timer is set.
C22_StartStopSchedulesRepoll ==
    [][\A action \in {"start", "stop"}, sel \in SelectableSvc,
          raises \in BOOLEAN :
          svc_action(action, sel, raises)
             => /\ (is_connected /\ sel # NoSel /\ ~raises)
                      => /\ svc'.issued = [action |-> action, service |-> sel]
                         /\ Len(svc'.timers) = Len(svc.timers) + 2
                         /\ SubSeq(svc'.timers, 1, Len(svc.timers)) = svc.timers
                         /\ svc'.timers[Len(svc.timers) + 1].kind = "repoll"
                         /\ svc'.timers[Len(svc.timers) + 2] =
                                [kind |-> "logs", service |-> sel]
                /\ (is_connected /\ sel # NoSel /\ raises)
                      => /\ dialogs' = {"SSH Error"}
                         /\ svc'.timers = svc.timers
                /\ ~is_connected
                      => /\ svc'.issued = NoCmd
                         /\ svc'.timers = svc.timers]_vars

\* A stop command was issued for service a: its re-poll timer and, behind
\* it, its log-fetch timer are pending.
C22_Witness ==
    /\ svc.issued = [action |-> "stop", service |-> <<"a">>]
    /\ is_connected
    /\ Len(svc.timers) = 2
    /\ svc.timers[1].kind = "repoll"
    /\ svc.timers[2] = [kind |-> "logs", service |-> <<"a">>]

\* C27: once disconnect_from_server has run on an active connection, and
\* until a connection succeeds again, connected_server_name is None, the
\* file browser is detached and disabled, the Upload and Download buttons
\* are disabled and the services list has no rows.
C27_DisconnectedServicesStayEmpty ==
    connected_server_name = None
       => /\ fb.sftp_client = NoClient
          /\ ~fb.enabled
          /\ ~upload_button
          /\ ~download_button
          /\ svc.tree = <<>>

\* Forms the Add / Edit dialog has to refuse: a name, host or username that
\* is empty or blank, an empty password, or a port text that is empty, not a
\* number, or a number below 1 or above 65535.
RefusedForm(typed) ==
    \/ \E f \in {"name", "host", "username"} : Trimmed(typed[f]) = <<>>
    \/ typed.password = <<>>
    \/ typed.port \in {<<>>, <<" ">>, <<"a">>, <<"2", "a">>, <<"2", " ", "2">>,
                       <<"0">>, <<"-", "1">>, <<"6", "5", "5", "3", "6">>}

\* C23: a result of the Add dialog has a non-empty name, host, username and
\* password and an integer port from 1 to 65535, and the store gets exactly
\* that record; for a form with an empty field, a non-numeric port, port 0
\* or port 65536 an error is shown, the result stays None and neither the
\* store nor its file is changed.
C23_DialogValidates ==
    [][credOp'.op = "add_server_dialog"
       => \A typed \in TypedInputs :
          add_server_dialog(typed)
             => LET r == save_server(typed).result
                IN  /\ r # NoResult
                         => /\ \A f \in {"name", "host", "username",
                                         "password"} : r[f] # <<>>
                            /\ r.port \in 1..65535
                            /\ Str(r.name) \in DOMAIN servers'
                            /\ servers'[Str(r.name)].port = r.port
                            /\ Chars[servers'[Str(r.name)].host] = r.host
                    /\ RefusedForm(typed)
                         => /\ r = NoResult
                            /\ dialogs' # {}
                            /\ credOp'.name = None
                            /\ servers' = servers
                            /\ file' = file]_vars

\* A form was refused for its port after a server with port 65535 had been
\* accepted: the store still holds that server only.
C23_Witness ==
    /\ credOp = [op |-> "add_server_dialog", name |-> None]
    /\ dialogs = {"Port must be a number between 1 and 65535."}
    /\ DOMAIN servers = {"web1"}
    /\ servers["web1"].port = 65535
    /\ file = FileOf(servers)

\* C28: a record written by add_server has no services: after the Add
\* dialog stores a server under a name, and after the Edit dialog stores the
\* edited server under its old or a new name, get_services of that name is
\* the empty list, whatever services the name or the edited server had.
C28_EditDiscardsServices ==
    [][/\ credOp'.op = "add_server_dialog"
          => \A typed \in TypedInputs, name \in Names :
                LET r == save_server(typed).result
                IN  (r # NoResult /\ name = Str(r.name)
                        /\ add_server_dialog(typed))
                       => get_services(name)' = <<>>
       /\ credOp'.op = "edit_server_dialog"
          => \A sel \in DOMAIN servers, typed \in EditInputs,
                name \in Names :
                LET r == save_server(typed).result
                IN  (r # NoResult /\ name = Str(r.name)
                        /\ edit_server_dialog(sel, typed))
                       => get_services(name)' = <<>>]_vars

\* web1 has been edited, keeping its name, after it had been given a
\* favourite service: the service is gone, while web2 still has its own.
C28_Witness ==
    /\ credOp = [op |-> "edit_server_dialog", name |-> "web1"]
    /\ DOMAIN servers = {"web1", "web2"}
    /\ get_services("web1") = <<>>
    /\ get_services("web2") = <<(<<"a">>)>>
    /\ "services" \notin DOMAIN servers["web1"]

\* C29: an edit that changes the name leaves the new name with the entered
\* parameters and removes the old name; every other record is unchanged, the
\* number of servers is unchanged, and a server that already had the new
\* name keeps its record.
C29_RenameKeepsOtherServers ==
    [][\A sel \in DOMAIN servers, typed \in EditInputs :
          LET r == save_server(typed).result
          IN  (credOp'.op = "edit_server_dialog"
                  /\ edit_server_dialog(sel, typed)
                  /\ r # NoResult /\ Str(r.name) # sel)
                 => /\ sel \notin DOMAIN servers'
                    /\ Str(r.name) \in DOMAIN servers'
                    /\ \A n \in DOMAIN servers \ {sel, Str(r.name)} :
                          n \in DOMAIN servers' /\ servers'[n] = servers[n]
                    /\ Cardinality(DOMAIN servers') =
                          Cardinality(DOMAIN servers)
                    /\ Str(r.name) \in DOMAIN servers
                          => servers'[Str(r.name)] = servers[Str(r.name)]
      ]_vars

\* The sum of the permission bits of the checkboxes in S.
RECURSIVE SumBits(_)
SumBits(S) ==
    IF S = {}
    THEN 0
    ELSE LET k == CHOOSE x \in S : TRUE
         IN  PermBits[k] + SumBits(S \ {k})

\* The checkboxes that are ticked when OK is pressed: those whose bit is
\* set in old, with the toggled ones inverted.
SelectedBoxes(old, toggled) ==
    {k \in 1..9 : ((old \div PermBits[k]) % 2 = 1) # (k \in toggled)}

\* C30: the mode change_permissions_selected hands to chmod is the old mode
\* with its low nine bits replaced by the bits selected in the dialog, so
\* everything above the low nine bits (file type, setuid, setgid, sticky)
\* is the old mode's, and pressing OK without toggling a checkbox sends the
\* old mode itself.
C30_ChmodKeepsHighBits ==
    [][remote'.calls # remote.calls
       => \A toggled \in DialogChoices \ {Cancelled},
             chmod_ok \in {dialogs' # {"Change Permissions Failed"}} :
             (\E sel \in Selectable \ {NoRow},
                 lst \in (IF chmod_ok THEN PermListings ELSE {NoListing}) :
                 change_permissions_selected(sel, TRUE, toggled, chmod_ok,
                                             lst))
             => LET old == remote.mode
                    sent == remote'.chmod_arg
                IN  /\ sent = (old - (old % 512))
                                 + SumBits(SelectedBoxes(old, toggled))
                    /\ sent \div 512 = old \div 512
                    /\ toggled = {} => sent = old
                    /\ chmod_ok => remote'.mode = sent]_vars

\* A setuid file rwxr-xr-x was given group write: chmod got 0o104775.
C30_Witness ==
    /\ remote.calls > 0
    /\ remote.chmod_arg = 35325
    /\ remote.mode = 35325

\* C24: whenever the file browser is enabled an SFTP client is attached,
\* in every state reached by connects, disconnects, failed SFTP opens,
\* transfers and their completion callbacks.
C24_EnabledImpliesSftpAttached ==
    fb.enabled => fb.sftp_client # NoClient

\* The completion callbacks of worker t waiting in the after() queue.
CallbacksQueued(t) ==
    Cardinality({i \in 1..Len(afterQ) :
                    afterQ[i] = [type |-> "xfer", id |-> t]})

\* C25: every upload or download worker that was started reaches its
\* completion callback, which runs exactly once, clears the busy flag and
\* re-enables the browser whether the transfer succeeded or failed; so the
\* busy flag does not stay set forever.
C25_TransferAlwaysCompletes ==
    /\ \A t \in XferIds : (xfers[t].st = "running") ~> (xfers[t].st = "done")
    /\ fb.transfer_in_progress ~> ~fb.transfer_in_progress
    /\ [](\A t \in XferIds :
             CallbacksQueued(t) = IF xfers[t].st = "posted" THEN 1 ELSE 0)
    /\ [][\A t \in XferIds :
             /\ xfers[t].st = "done" => xfers'[t].st = "done"
             /\ (xfers[t].st # "done" /\ xfers'[t].st = "done")
                => /\ xfers[t].st = "posted"
                   /\ ~fb'.transfer_in_progress
                   /\ fb'.enabled]_vars

\* A failed transfer was completed and the next request was accepted: the
\* second worker runs.
C25_Witness ==
    /\ xfers[1].st = "done"
    /\ xfers[2].st = "running"
    /\ fb.transfer_in_progress
    /\ "Upload Failed" \in dialogs \/ "Download Failed" \in dialogs
          \/ fb.status \in {"Uploading", "Downloading"}

\* The save workers that have not finished their write.
SavesRunning == {t \in XferIds : xfers[t].kind = "save" /\ xfers[t].st = "running"}

\* C26: a save writes to the path that was open when Save was confirmed,
\* whatever the event thread does while the worker runs, and no two save
\* workers run at the same time.
C26_SaveWritesConfirmedPath ==
    /\ [](Cardinality(SavesRunning) <= 1)
    /\ [][\A t \in SavesRunning :
             (xfers'[t].st = "posted" /\ xfers'[t].ok)
             => xfers'[t].dir = xfers[t].dir]_vars

====
